---- MODULE Spec2Model ----
(***************************************************************************)
(* Model of the content-to-knowledge pipeline of                           *)
(* services/vectorstore/content_vectorizer.py: the chunker (smart_chunk),  *)
(* ingestion (process_content) and retrieval (rag_search) of               *)
(* ContentVectorizer, on top of the vector index (the ChromaDB collection) *)
(* and the embedding service (Ollama); and of the /extract endpoint of     *)
(* services/extractor/app.py: the extraction cascade (extract_content,     *)
(* extract_with_fallback, clean_text) and extract_images_from_html.        *)
(*                                                                         *)
(* Text is a sequence of one-character strings.  An embedding is a pair of *)
(* integers.  A similarity score is kept in units of 1/ScoreScale, rounded *)
(* down; thresholds are given in the same unit, so "score >= threshold"    *)
(* is decided exactly.  What the libraries return (trafilatura, the HTML   *)
(* parser, the embedding service, the index) is an input of the actions.   *)
(***************************************************************************)
EXTENDS Integers, Sequences, FiniteSets, TLC

\* ------------------------------------------------------------------ text

Whitespace == {" ", "\n"}
SentenceEnd == {".", "!", "?"}

IsSpace(c) == c \in Whitespace

\* str.strip(): the text without its leading and trailing whitespace.
Strip(s) ==
    IF \A i \in 1..Len(s) : IsSpace(s[i]) THEN << >>
    ELSE LET a == CHOOSE i \in 1..Len(s) :
                      ~IsSpace(s[i]) /\ \A j \in 1..(i - 1) : IsSpace(s[j])
             b == CHOOSE i \in 1..Len(s) :
                      ~IsSpace(s[i]) /\ \A j \in (i + 1)..Len(s) : IsSpace(s[j])
         IN SubSeq(s, a, b)

\* re.sub(r'\s+', ' ', s) on the positions lo..hi of s: every run of
\* whitespace becomes one blank.
RECURSIVE CollapseRange(_, _, _)
CollapseRange(s, lo, hi) ==
    IF lo > hi THEN << >>
    ELSE IF lo = hi
         THEN IF IsSpace(s[lo])
              THEN IF lo > 1 /\ IsSpace(s[lo - 1]) THEN << >> ELSE << " " >>
              ELSE << s[lo] >>
         ELSE LET mid == (lo + hi) \div 2
              IN CollapseRange(s, lo, mid) \o CollapseRange(s, mid + 1, hi)

NormalizeWhitespace(s) == LET t == Strip(s) IN CollapseRange(t, 1, Len(t))

\* A match of (?<=[.!?])\s+ starts at position p of t.
IsSentenceBreak(t, p) ==
    /\ p > 1
    /\ IsSpace(t[p])
    /\ t[p - 1] \in SentenceEnd

\* The end of the run of whitespace that starts at p.
RunEnd(t, p) ==
    CHOOSE e \in p..Len(t) :
        /\ \A j \in p..e : IsSpace(t[j])
        /\ (e = Len(t) \/ ~IsSpace(t[e + 1]))

\* re.split(r'(?<=[.!?])\s+', t), from position start on.
RECURSIVE SplitSentences(_, _)
SplitSentences(t, start) ==
    IF \A p \in start..Len(t) : ~IsSentenceBreak(t, p)
    THEN << SubSeq(t, start, Len(t)) >>
    ELSE LET p == CHOOSE q \in start..Len(t) :
                      IsSentenceBreak(t, q)
                      /\ \A r \in start..(q - 1) : ~IsSentenceBreak(t, r)
         IN << SubSeq(t, start, p - 1) >> \o SplitSentences(t, RunEnd(t, p) + 1)

\* str.split(): the maximal runs of non-whitespace, from position start on.
RECURSIVE SplitWords(_, _)
SplitWords(t, start) ==
    IF \A p \in start..Len(t) : IsSpace(t[p]) THEN << >>
    ELSE LET a == CHOOSE q \in start..Len(t) :
                      ~IsSpace(t[q]) /\ \A r \in start..(q - 1) : IsSpace(t[r])
             b == CHOOSE q \in a..Len(t) :
                      /\ \A r \in a..q : ~IsSpace(t[r])
                      /\ (q = Len(t) \/ IsSpace(t[q + 1]))
         IN << SubSeq(t, a, b) >> \o SplitWords(t, b + 1)

JoinPieceGlued(current, piece) == current \o piece

\* current + (" " if current else "") + piece
JoinPiece(current, piece) ==
    current \o (IF current # << >> THEN << " " >> ELSE << >>) \o piece

FitsWithoutSpace(candidate, max_chunk_size) ==
    Len(candidate) - 1 <= max_chunk_size

FitsStrictly(candidate, max_chunk_size) == Len(candidate) < max_chunk_size

\* The test that decides whether a piece still goes into the running buffer.
Fits(candidate, max_chunk_size) == Len(candidate) <= max_chunk_size

\* The word loop of smart_chunk for a sentence longer than max_chunk_size:
\* [chunks, temp] after the words from position j on.
RECURSIVE PackWords(_, _, _, _, _)
PackWords(words, j, temp_chunk, chunks, max_chunk_size) ==
    IF j > Len(words) THEN [chunks |-> chunks, temp |-> temp_chunk]
    ELSE LET test_temp == JoinPiece(temp_chunk, words[j])
         IN IF Fits(test_temp, max_chunk_size)
            THEN PackWords(words, j + 1, test_temp, chunks, max_chunk_size)
            ELSE PackWords(words, j + 1, words[j],
                           IF temp_chunk # << >> THEN Append(chunks, temp_chunk)
                                                 ELSE chunks,
                           max_chunk_size)

\* The sentence loop of smart_chunk, from sentence i on, and the flush of the
\* last buffer.
RECURSIVE PackSentences(_, _, _, _, _)
PackSentences(sentences, i, current_chunk, chunks, max_chunk_size) ==
    IF i > Len(sentences)
    THEN IF current_chunk # << >> THEN Append(chunks, current_chunk) ELSE chunks
    ELSE LET sentence == Strip(sentences[i])
         IN IF sentence = << >>
            THEN PackSentences(sentences, i + 1, current_chunk, chunks,
                               max_chunk_size)
            ELSE LET test_chunk == JoinPiece(current_chunk, sentence)
                 IN IF Fits(test_chunk, max_chunk_size)
                    THEN PackSentences(sentences, i + 1, test_chunk, chunks,
                                       max_chunk_size)
                    ELSE LET saved == IF current_chunk # << >>
                                      THEN Append(chunks, current_chunk)
                                      ELSE chunks
                         IN IF Len(sentence) > max_chunk_size
                            THEN LET w == PackWords(SplitWords(sentence, 1), 1,
                                                    << >>, saved, max_chunk_size)
                                 IN PackSentences(sentences, i + 1,
                                        IF w.temp # << >> THEN w.temp
                                                          ELSE current_chunk,
                                        w.chunks, max_chunk_size)
                            ELSE PackSentences(sentences, i + 1, sentence,
                                               saved, max_chunk_size)

\* chunks = [chunk.strip() for chunk in chunks if chunk.strip()]
RECURSIVE DropEmpty(_, _)
DropEmpty(chunks, i) ==
    IF i > Len(chunks) THEN << >>
    ELSE (IF Strip(chunks[i]) # << >> THEN << Strip(chunks[i]) >> ELSE << >>)
         \o DropEmpty(chunks, i + 1)

smart_chunkUnguarded(text, max_chunk_size) ==
    LET t == NormalizeWhitespace(text)
    IN IF Len(t) <= max_chunk_size THEN << t >>
       ELSE DropEmpty(PackSentences(SplitSentences(t, 1), 1, << >>, << >>,
                                    max_chunk_size), 1)

smart_chunkForgetsLast(text, max_chunk_size) ==
    IF Strip(text) = << >> THEN << >>
    ELSE LET t == NormalizeWhitespace(text)
         IN IF Len(t) <= max_chunk_size THEN << t >>
            ELSE LET packed == PackSentences(SplitSentences(t, 1), 1, << >>,
                                             << >>, max_chunk_size)
                 IN DropEmpty(SubSeq(packed, 1, Len(packed) - 1), 1)

\* smart_chunk(text, max_chunk_size): the chunks of a text.  The sentence
\* loop cannot raise on a str, so the fixed-size fallback is not entered.
smart_chunk(text, max_chunk_size) ==
    IF Strip(text) = << >> THEN << >>
    ELSE LET t == NormalizeWhitespace(text)
         IN IF Len(t) <= max_chunk_size THEN << t >>
            ELSE DropEmpty(PackSentences(SplitSentences(t, 1), 1, << >>, << >>,
                                         max_chunk_size), 1)

\* ---------------------------------------------------------------- bounds

\* process_content calls started in one behaviour.
MaxCalls == 3
\* rag_search asks the index for 1..MaxResults candidates.
MaxResults == 2
\* Similarity scores are kept in units of 1/ScoreScale.
ScoreScale == 100

\* smart_chunk is called on every text of at most MaxTextLen characters over
\* Alphabet, with max_chunk_size in 1..MaxChunkSize.
MaxTextLen == 6
MaxChunkSize == 4

\* The concurrent callers of the vectorizer: two tasks of one event loop
\* (asyncio.gather over extract_and_process).  A call gives way to the other
\* task only at its awaits, the embedding requests.
Tasks == { 1, 2 }

\* ---------------------------------------------------------------- inputs

Rep(c, n) == [i \in 1..n |-> c]
Sentence(c, n) == Rep(c, n - 1) \o << "." >>

\* Whitespace only: no chunk.
TextBlank == << " ", "\n", " " >>
\* Fits in one chunk of 512 characters.
TextOne == << "H", "i", ".", " ", "\n", "Y", "o", "." >>
\* Two sentences of 300 characters: two chunks.
TextTwo == Sentence("a", 300) \o << " " >> \o Sentence("b", 300)
\* 1500 characters, three sentences of 500, 499 and 499: three chunks.
TextThree == Sentence("c", 500) \o << " " >> \o Sentence("d", 499)
             \o << " " >> \o Sentence("e", 499)

\* 1500 characters without whitespace: one token, one chunk.
TextToken == Rep("f", 1500)

Texts == << TextBlank, TextOne, TextTwo, TextThree, TextToken >>

\* The ContentResult objects handed to process_content:
\* (url, title, text, timestamp).
ContentTable ==
    << [url |-> "u1", title |-> "t1", text |-> TextBlank, timestamp |-> 1],
       [url |-> "u1", title |-> "t1", text |-> TextOne, timestamp |-> 1],
       [url |-> "u1", title |-> "t1", text |-> TextTwo, timestamp |-> 1],
       [url |-> "u2", title |-> "t2", text |-> TextTwo, timestamp |-> 2],
       [url |-> "u2", title |-> "t2", text |-> TextThree, timestamp |-> 2],
       [url |-> "u2", title |-> "t2", text |-> TextToken, timestamp |-> 2] >>

\* The characters of the texts smart_chunk is called on: a letter, a
\* sentence end and a space.
Alphabet == { "a", ".", " " }

\* Texts with other characters: the example of two short sentences, and
\* a newline, a double space and the other sentence ends.
ExampleTexts ==
    { << "H", "i", ".", " ", "Y", "o", "." >>,
      << "a", "!", "\n", "a", "?", " ", " ", "a" >> }

ChunkTexts ==
    UNION { [1..n -> Alphabet] : n \in 0..MaxTextLen } \cup ExampleTexts

\* A task holds a ContentResult by reference: its position in ContentTable.
Contents == 1..Len(ContentTable)

\* The queries handed to rag_search.
Queries == { "q1", "q2", "q3" }

\* The embedding request raised: no vector.
EmbFail == << >>

\* ---------------------------------------------------- embedding service

\* The vector the embedding model serves for the prompt
\* f"{task_prefix}: {text}".  The model is a function of the prompt; here a
\* query has the vector of its name and a chunk the vector of its first letter.
OllamaModel(task_prefix, text) ==
    IF task_prefix = "search_query"
    THEN CASE text = "q1" -> << 1, 1 >>
           [] text = "q2" -> << 1, 0 >>
           [] OTHER -> << 0, 0 >>
    ELSE CASE text[1] \in { "H", "a", "e" } -> << 1, 0 >>
           [] text[1] \in { "b", "c" } -> << 2, 2 >>
           [] OTHER -> << -1, 0 >>

\* get_ollama_embedding(text, task_prefix): the vector of the response, or
\* EmbFail when the request raises (ok = FALSE).
get_ollama_embedding(text, task_prefix, ok) ==
    IF ok THEN OllamaModel(task_prefix, text) ELSE EmbFail

\* ----------------------------------------------------- ContentResult

\* hashlib.sha256(text.encode()).hexdigest()[:16]: a key that the text alone
\* determines; here the position of the text in Texts.
content_hash(text) == CHOOSE h \in 1..Len(Texts) : Texts[h] = text

\* ------------------------------------------------------ vector index

\* f"{content.content_hash}_{i}", i counted from 0.
ChunkId(hash, i) == << hash, i >>

IndexGetAny(idx, hash) == idx

\* collection.get(where={"content_hash": hash}): the stored entries that
\* carry the hash.
IndexGet(idx, hash) == { e \in idx : e.metadata.content_hash = hash }

IndexAddUpserts(idx, ids, documents, embeddings, metadatas) ==
    IF Len(documents) # Len(ids) \/ Len(embeddings) # Len(ids)
       \/ Len(metadatas) # Len(ids)
    THEN [ok |-> FALSE, index |-> idx]
    ELSE [ok |-> TRUE,
          index |-> { e \in idx : \A k \in 1..Len(ids) : e.id # ids[k] }
                    \cup { [id |-> ids[k], document |-> documents[k],
                            embedding |-> embeddings[k],
                            metadata |-> metadatas[k]] : k \in 1..Len(ids) }]

\* collection.add(ids, documents, embeddings, metadatas).  The collection
\* rejects a record set whose lists differ in length (it raises, and nothing
\* is written), and it leaves an entry whose id is already stored as it is.
IndexAdd(idx, ids, documents, embeddings, metadatas) ==
    IF Len(documents) # Len(ids) \/ Len(embeddings) # Len(ids)
       \/ Len(metadatas) # Len(ids)
    THEN [ok |-> FALSE, index |-> idx]
    ELSE LET present == { e.id : e \in idx }
             fresh == { k \in 1..Len(ids) : ids[k] \notin present }
         IN [ok |-> TRUE,
             index |-> idx \cup { [id |-> ids[k], document |-> documents[k],
                                   embedding |-> embeddings[k],
                                   metadata |-> metadatas[k]] : k \in fresh }]

\* -------------------------------------------------------------- state

VARIABLES
    index,      \* the collection: a set of [id, document, embedding, metadata]
    task,       \* per task: the process_content call it runs or has finished
    calls,      \* process_content calls started so far (the callers' clock)
    succeeded   \* per content: the chunk count of its last `success` result

ingestVars == << index, task, calls, succeeded >>

NoResult == [status |-> "none", chunks |-> 0]

IdleTask ==
    [pc |-> "idle", content |-> 1,
     chunks |-> << >>, embeddings |-> << >>, result |-> NoResult,
     \* observations of the call, for the properties below
     outcomes |-> << >>,     \* per chunk: did its embedding request succeed
     chunked |-> 0,          \* smart_chunk runs
     fault |-> FALSE]        \* an index operation of the call raised

\* ------------------------------------------------------ process_content

\* max_chunk_size of the smart_chunk call in process_content.
IngestChunkSize == 512

\* self.smart_chunk(content.text, max_chunk_size=512), evaluated once for
\* each text of Texts.
ChunkedTexts == [h \in 1..Len(Texts) |-> smart_chunk(Texts[h], IngestChunkSize)]

ChunkedTextsWide ==
    [h \in 1..Len(Texts) |-> smart_chunk(Texts[h], 2 * IngestChunkSize)]
IngestChunksWide(text) ==
    ChunkedTextsWide[CHOOSE h \in 1..Len(Texts) : Texts[h] = text]

\* chunks = self.smart_chunk(content.text, max_chunk_size=512)
IngestChunks(text) == ChunkedTexts[CHOOSE h \in 1..Len(Texts) : Texts[h] = text]

AlreadyStoredSeveral(existing) == Cardinality(existing) > 1

\* if existing and len(existing['documents']) > 0
AlreadyStored(existing) == Cardinality(existing) > 0

\* The `exists` result: chunks = len(existing['documents']).
ExistsResult(existing) == [status |-> "exists", chunks |-> Cardinality(existing)]

ChunkIdsSparse(hash, chunks) == [k \in 1..Len(chunks) |-> ChunkId(hash, 2 * (k - 1))]

ChunkIdsFromOne(hash, chunks) == [k \in 1..Len(chunks) |-> ChunkId(hash, k)]

\* chunk_ids = [f"{content.content_hash}_{i}" for i in range(len(chunks))]
ChunkIds(hash, chunks) == [k \in 1..Len(chunks) |-> ChunkId(hash, k - 1)]

\* metadatas = [{...} for i in range(len(chunks))]
Metadatas(content, chunks) ==
    [k \in 1..Len(chunks) |->
        [url |-> content.url, title |-> content.title, chunk_id |-> k - 1,
         content_hash |-> content_hash(content.text),
         timestamp |-> content.timestamp,
         total_chunks |-> Len(chunks)]]

\* documents=chunks[:len(embeddings)], metadatas=metadatas[:len(embeddings)]
Prefix(list, embeddings) == SubSeq(list, 1, Len(embeddings))

FewEmbeddings(embeddings) == Len(embeddings) <= 1

\* if not embeddings
NoEmbeddings(embeddings) == embeddings = << >>

StoreChunksRechecks(idx, content, chunks, embeddings, addFault) ==
    IF NoEmbeddings(embeddings)
    THEN [index |-> idx, fault |-> FALSE,
          result |-> [status |-> "embedding_failed", chunks |-> 0]]
    ELSE IF AlreadyStored(IndexGet(idx, content_hash(content.text)))
    THEN [index |-> idx, fault |-> FALSE,
          result |-> ExistsResult(IndexGet(idx, content_hash(content.text)))]
    ELSE LET added == IndexAdd(idx,
                               ChunkIds(content_hash(content.text), chunks),
                               Prefix(chunks, embeddings),
                               embeddings,
                               Prefix(Metadatas(content, chunks),
                                      embeddings))
         IN IF addFault \/ ~added.ok
            THEN [index |-> idx, fault |-> addFault,
                  result |-> [status |-> "error", chunks |-> 0]]
            ELSE [index |-> added.index, fault |-> FALSE,
                  result |-> [status |-> "success", chunks |-> Len(embeddings)]]

StoreChunksUnguarded(idx, content, chunks, embeddings, addFault) ==
    IF NoEmbeddings(embeddings)
    THEN [index |-> idx, fault |-> FALSE,
          result |-> [status |-> "embedding_failed", chunks |-> 0]]
    ELSE [index |-> idx, fault |-> addFault,
          result |-> [status |-> "success", chunks |-> Len(embeddings)]]

\* What process_content does once the embedding loop is over: the
\* `embedding_failed` return, or collection.add and the `success` return, or
\* the `error` return of the handler around it.
StoreChunks(idx, content, chunks, embeddings, addFault) ==
    IF NoEmbeddings(embeddings)
    THEN [index |-> idx, fault |-> FALSE,
          result |-> [status |-> "embedding_failed", chunks |-> 0]]
    ELSE LET added == IndexAdd(idx,
                               ChunkIds(content_hash(content.text), chunks),
                               Prefix(chunks, embeddings),
                               embeddings,
                               Prefix(Metadatas(content, chunks),
                                      embeddings))
         IN IF addFault \/ ~added.ok
            THEN [index |-> idx, fault |-> addFault,
                  result |-> [status |-> "error", chunks |-> 0]]
            ELSE [index |-> added.index, fault |-> FALSE,
                  result |-> [status |-> "success", chunks |-> Len(embeddings)]]

\* A caller invokes process_content(content); the call runs up to its first
\* await: the lookup of the hash, the chunking, and the first embedding
\* request.  getFault: collection.get raises.
StartIngest(p, c, getFault) ==
    /\ task[p].pc \in {"idle", "done"}
    /\ calls < MaxCalls
    /\ calls' = calls + 1
    /\ LET existing == IndexGet(index, content_hash(ContentTable[c].text))
           chunks == IngestChunks(ContentTable[c].text)
           call == [IdleTask EXCEPT !.content = c]
       IN task' = [task EXCEPT ![p] =
            IF getFault
            THEN [call EXCEPT !.pc = "done", !.fault = TRUE,
                              !.result = [status |-> "error", chunks |-> 0]]
            ELSE IF AlreadyStored(existing)
            THEN [call EXCEPT !.pc = "done", !.result = ExistsResult(existing)]
            ELSE IF chunks = << >>
            THEN [call EXCEPT !.pc = "done", !.chunked = 1,
                              !.result = [status |-> "no_chunks", chunks |-> 0]]
            ELSE [call EXCEPT !.pc = "embedding", !.chunked = 1,
                              !.chunks = chunks]]
    /\ UNCHANGED << index, succeeded >>

\* The embedding request of the next chunk returns (ok) or raises, and the
\* call runs on to its next await or to its return.
\* addFault: collection.add raises (an input only of the step that reaches
\* the collection.add call).
EmbedReply(p, ok, addFault) ==
    /\ task[p].pc = "embedding"
    /\ LET t == task[p]
           chunk == t.chunks[Len(t.outcomes) + 1]
           embedding == get_ollama_embedding(chunk, "search_document", ok)
           embeddings == IF embedding = EmbFail THEN t.embeddings
                         ELSE Append(t.embeddings, embedding)
           outcomes == Append(t.outcomes, ok)
       IN IF Len(outcomes) < Len(t.chunks)
          THEN /\ ~addFault
               /\ task' = [task EXCEPT ![p] =
                      [t EXCEPT !.embeddings = embeddings, !.outcomes = outcomes]]
               /\ UNCHANGED << index, succeeded >>
          ELSE LET done == StoreChunks(index, ContentTable[t.content], t.chunks,
                                       embeddings, addFault)
               IN /\ addFault => ~NoEmbeddings(embeddings)
                  /\ index' = done.index
                  /\ task' = [task EXCEPT ![p] =
                         [t EXCEPT !.pc = "done", !.embeddings = embeddings,
                                   !.outcomes = outcomes, !.result = done.result,
                                   !.fault = done.fault]]
                  /\ succeeded' =
                         IF done.result.status = "success"
                         THEN [succeeded EXCEPT ![t.content] = done.result.chunks]
                         ELSE succeeded
    /\ UNCHANGED calls

\* ----------------------------------------------------------- rag_search

Dot(a, b) == a[1] * b[1] + a[2] * b[2]

\* The distance the collection reports (its default space, squared L2).
Distance(a, b) == (a[1] - b[1]) * (a[1] - b[1]) + (a[2] - b[2]) * (a[2] - b[2])

\* float(np.dot(query_emb / (norm(query_emb) + 1e-8),
\*              stored_emb / (norm(stored_emb) + 1e-8)))
\* in units of 1/ScoreScale, rounded down.  The 1e-8 added to each norm makes
\* the quotient a little smaller in magnitude than the exact cosine, so a
\* positive cosine that is a whole number of units is rounded to the unit below.
CosineSimilarity(query_emb, stored_emb) ==
    LET dot == Dot(query_emb, stored_emb)
        n2 == Dot(query_emb, query_emb) * Dot(stored_emb, stored_emb)
        sq == ScoreScale * ScoreScale * dot * dot
    IN IF dot = 0 \/ n2 = 0 THEN 0
       ELSE IF dot > 0
            THEN CHOOSE k \in 0..ScoreScale :
                     k * k * n2 < sq /\ (k + 1) * (k + 1) * n2 >= sq
            ELSE 0 - (CHOOSE k \in 0..ScoreScale :
                          k * k * n2 >= sq
                          /\ (k = 0 \/ (k - 1) * (k - 1) * n2 < sq))

\* max(0, 1 - distance), in units of 1/ScoreScale.
DistanceSimilarity(distance) ==
    IF 1 - distance > 0 THEN ScoreScale * (1 - distance) ELSE 0

\* The candidate lists collection.query(query_embeddings=[q], n_results=k,
\* include=[documents, metadatas, distances, embeddings]) can answer with: the
\* k nearest entries (all of them when fewer are stored), nearest first, ties
\* in any order.
NearestLists(idx, q, k) ==
    LET n == IF k < Cardinality(idx) THEN k ELSE Cardinality(idx)
    IN { c \in [1..n -> idx] :
           /\ \A i, j \in 1..n : i < j =>
                  /\ c[i] # c[j]
                  /\ Distance(q, c[i].embedding) <= Distance(q, c[j].embedding)
           /\ \A e \in idx : (\A i \in 1..n : c[i] # e) =>
                  \A i \in 1..n :
                      Distance(q, c[i].embedding) <= Distance(q, e.embedding) }

\* The reply of collection.query for a candidate list.  `shape` says what the
\* reply holds under 'embeddings': "list" the stored vectors, "absent" nothing
\* (no such key), "null" the value None.
QueryReply(q, c, shape) ==
    [documents |-> [i \in 1..Len(c) |-> c[i].document],
     metadatas |-> [i \in 1..Len(c) |-> c[i].metadata],
     distances |-> [i \in 1..Len(c) |-> Distance(q, c[i].embedding)],
     embeddings |-> IF shape = "list" THEN [i \in 1..Len(c) |-> c[i].embedding]
                    ELSE << >>,
     shape |-> shape]

RAGResultNoScores(query, retrieved_chunks, sources, generated_response, similarity_scores) ==
    [query |-> query, retrieved_chunks |-> retrieved_chunks,
     sources |-> sources, generated_response |-> generated_response,
     similarity_scores |-> << >>]

\* RAGResult(query, retrieved_chunks, sources, generated_response,
\*           similarity_scores=None): similarity_scores or [].
RAGResult(query, retrieved_chunks, sources, generated_response, similarity_scores) ==
    [query |-> query, retrieved_chunks |-> retrieved_chunks,
     sources |-> sources, generated_response |-> generated_response,
     similarity_scores |-> similarity_scores]

SearchFailedKeepsSentinel(query) ==
    [query |-> query, retrieved_chunks |-> << >>, sources |-> << >>,
     generated_response |-> "No relevant information found in the knowledge base.",
     similarity_scores |-> << >>]

\* The result of the handler `except Exception as e`.
SearchFailed(query) == RAGResult(query, << >>, << >>, "Search failed: e", << >>)

\* The similarity of candidate i (counted from 1) of the reply.
Similarity(results, query_embedding, i) ==
    IF results.shape = "list" /\ Len(results.embeddings) > i - 1
    THEN CosineSimilarity(query_embedding, results.embeddings[i])
    ELSE DistanceSimilarity(results.distances[i])

RetainedStrictly(similarity, similarity_threshold) ==
    similarity > similarity_threshold

RetainedBelow(similarity, similarity_threshold) ==
    similarity <= similarity_threshold

\* if similarity >= similarity_threshold
Retained(similarity, similarity_threshold) == similarity >= similarity_threshold

RECURSIVE FilterCandidatesReversed(_, _, _, _, _)
FilterCandidatesReversed(results, query_embedding, similarity_threshold, i, acc) ==
    IF i > Len(results.documents) THEN acc
    ELSE LET similarity == Similarity(results, query_embedding, i)
         IN FilterCandidatesReversed(results, query_embedding,
                similarity_threshold, i + 1,
                IF Retained(similarity, similarity_threshold)
                THEN [filtered_chunks |->
                          << results.documents[i] >> \o acc.filtered_chunks,
                      filtered_sources |->
                          << results.metadatas[i] >> \o acc.filtered_sources,
                      similarity_scores |->
                          << similarity >> \o acc.similarity_scores]
                ELSE acc)

\* The loop over zip(documents, metadatas, distances), from candidate i on:
\* the three lists it appends to.
RECURSIVE FilterCandidates(_, _, _, _, _)
FilterCandidates(results, query_embedding, similarity_threshold, i, acc) ==
    IF i > Len(results.documents) THEN acc
    ELSE LET similarity == Similarity(results, query_embedding, i)
         IN FilterCandidates(results, query_embedding, similarity_threshold, i + 1,
                IF Retained(similarity, similarity_threshold)
                THEN [filtered_chunks |->
                          Append(acc.filtered_chunks, results.documents[i]),
                      filtered_sources |->
                          Append(acc.filtered_sources, results.metadatas[i]),
                      similarity_scores |->
                          Append(acc.similarity_scores, similarity)]
                ELSE acc)

RagOutcomeOneSentinel(query, similarity_threshold, query_embedding, queryFault, results) ==
    IF query_embedding = EmbFail \/ queryFault THEN SearchFailed(query)
    ELSE IF results.documents = << >>
    THEN RAGResult(query, << >>, << >>,
                   "No relevant information found in the knowledge base.", << >>)
    ELSE IF results.shape = "null" THEN SearchFailed(query)
    ELSE LET f == FilterCandidates(results, query_embedding, similarity_threshold,
                      1, [filtered_chunks |-> << >>, filtered_sources |-> << >>,
                          similarity_scores |-> << >>])
         IN IF f.filtered_chunks = << >>
            THEN RAGResult(query, << >>, << >>,
                     "No relevant information found in the knowledge base.",
                     << >>)
            ELSE RAGResult(query, f.filtered_chunks, f.filtered_sources, "",
                           f.similarity_scores)

\* rag_search once the query embedding and the reply of the index are in:
\* query_embedding is EmbFail when the embedding request raised, queryFault
\* says that collection.query raised.
RagOutcome(query, similarity_threshold, query_embedding, queryFault, results) ==
    IF query_embedding = EmbFail \/ queryFault THEN SearchFailed(query)
    ELSE IF results.documents = << >>
    THEN RAGResult(query, << >>, << >>,
                   "No relevant information found in the knowledge base.", << >>)
    ELSE IF results.shape = "null" THEN SearchFailed(query)
    ELSE LET f == FilterCandidates(results, query_embedding, similarity_threshold,
                      1, [filtered_chunks |-> << >>, filtered_sources |-> << >>,
                          similarity_scores |-> << >>])
         IN IF f.filtered_chunks = << >>
            THEN RAGResult(query, << >>, << >>,
                     "No sufficiently relevant information found in the knowledge base.",
                     << >>)
            ELSE RAGResult(query, f.filtered_chunks, f.filtered_sources, "",
                           f.similarity_scores)

\* The thresholds rag_search is called with, in units of 1/ScoreScale; the
\* default 0.1 is among them.
Thresholds ==
    { 0 - ScoreScale \div 2, 0, ScoreScale \div 10, (7 * ScoreScale) \div 10,
      ScoreScale }

\* What the embedding service and the index answer to one rag_search: the
\* embedding request raises, or collection.query raises, or the index replies
\* in one of its three shapes.
Answers == { "embedding raises", "query raises", "list", "absent", "null" }

VARIABLE rag    \* the last rag_search call: its inputs, what the embedding
                \* service and the index answered, and the RAGResult returned

NoSearch ==
    [done |-> FALSE, query |-> "q1", max_results |-> 1, similarity_threshold |-> 0,
     answer |-> "list", query_embedding |-> EmbFail,
     results |-> QueryReply(<< 0, 0 >>, << >>, "list"),
     result |-> SearchFailed("q1")]

\* A caller runs rag_search(query, max_results, similarity_threshold).  All
\* of the call that touches the index runs after its only await, the query
\* embedding request, in one piece.
RagSearch(query, max_results, similarity_threshold, answer) ==
    /\ LET embOk == answer # "embedding raises"
           queryFault == answer = "query raises"
           query_embedding == get_ollama_embedding(query, "search_query", embOk)
       IN \E c \in IF embOk /\ ~queryFault
                   THEN NearestLists(index, query_embedding, max_results)
                   ELSE { << >> } :
              LET results == QueryReply(IF embOk THEN query_embedding
                                                 ELSE << 0, 0 >>, c,
                                        IF embOk /\ ~queryFault THEN answer
                                                                ELSE "list")
              IN rag' = [done |-> TRUE, query |-> query,
                         max_results |-> max_results,
                         similarity_threshold |-> similarity_threshold,
                         answer |-> answer,
                         query_embedding |-> query_embedding,
                         results |-> results,
                         result |-> RagOutcome(query, similarity_threshold,
                                               query_embedding, queryFault, results)]
    /\ UNCHANGED ingestVars

\* ------------------------------------------------- smart_chunk, called once

VARIABLE chunker    \* the last smart_chunk call: its inputs and its chunks

NoChunking ==
    [done |-> FALSE, text |-> << >>, max_chunk_size |-> 1, chunks |-> << >>]

\* A caller runs smart_chunk(text, max_chunk_size).
SmartChunk(text, max_chunk_size) ==
    /\ ~chunker.done
    /\ chunker' = [done |-> TRUE, text |-> text,
                   max_chunk_size |-> max_chunk_size,
                   chunks |-> smart_chunk(text, max_chunk_size)]

\* ------------------------------------------- extractor: image URLs

\* return unique_images[:50]
ImageLimit == 50

\* A URL as the extractor reads it in an attribute or a style: the scheme as
\* written ("" for a relative URL, "absent" for a missing or empty
\* attribute), the file it names, and the marker its path carries.
Url(scheme, file, marker) == [scheme |-> scheme, file |-> file, marker |-> marker]
NoUrl == Url("absent", 0, "none")

\* An <img> element: its src, data-src and data-lazy-src attributes.
Img(src, data_src, data_lazy_src) == [src |-> src, data_src |-> data_src, data_lazy_src |-> data_lazy_src]

\* url.startswith(('http://', 'https://', 'data:')), case-sensitive.
IsAbsoluteOrData(url) == url.scheme \in { "http://", "https://", "data:" }

\* urljoin(base_url, url) for a page served over https: a relative URL
\* becomes an absolute one of the page's host, a URL with a scheme of its
\* own (also one in upper case) is returned as written.
urljoin(url) ==
    IF url.scheme = "" THEN Url("https://", url.file, url.marker) ELSE url

\* 'spacer' in url.lower()
HasSpacer(url) == url.marker \in { "spacer", "SPACER" }

\* if not src.startswith(('http://', 'https://', 'data:')):
\*     src = urljoin(base_url, src)
Resolve(url) == IF IsAbsoluteOrData(url) THEN url ELSE urljoin(url)

\* The sources the loop over the <img> elements appends, from element i on.
RECURSIVE ImgSources(_, _)
ImgSources(imgs, i) ==
    IF i > Len(imgs) THEN << >>
    ELSE LET raw == IF imgs[i].src # NoUrl THEN imgs[i].src
                    ELSE IF imgs[i].data_src # NoUrl THEN imgs[i].data_src
                    ELSE imgs[i].data_lazy_src
             src == Resolve(raw)
         IN (IF raw # NoUrl /\ src.scheme # "data:" /\ ~HasSpacer(src)
             THEN << src >> ELSE << >>)
            \o ImgSources(imgs, i + 1)

\* The URLs the loop over the background-image declarations appends.
RECURSIVE BackgroundSources(_, _)
BackgroundSources(backgrounds, i) ==
    IF i > Len(backgrounds) THEN << >>
    ELSE LET match == Resolve(backgrounds[i])
         IN (IF match.scheme # "data:" THEN << match >> ELSE << >>)
            \o BackgroundSources(backgrounds, i + 1)

\* Remove duplicates while preserving order.
RECURSIVE Unique(_, _, _)
Unique(images, i, seen) ==
    IF i > Len(images) THEN << >>
    ELSE IF images[i] \in seen THEN Unique(images, i + 1, seen)
    ELSE << images[i] >> \o Unique(images, i + 1, seen \cup { images[i] })

\* unique_images[:50]
Capped(images) == SubSeq(images, 1, IF Len(images) < ImageLimit THEN Len(images) ELSE ImageLimit)

\* extract_images_from_html(html, base_url) for a page with the <img>
\* elements imgs and the inline background-image URLs backgrounds, both in
\* document order; soupFault: the parser raises, and no URL is collected.
extract_images_from_html(imgs, backgrounds, soupFault) ==
    LET images == IF soupFault THEN << >>
                  ELSE ImgSources(imgs, 1) \o BackgroundSources(backgrounds, 1)
    IN Capped(Unique(images, 1, {}))

\* The URLs written in the pages: relative and absolute ones, data: URIs in
\* lower and upper case, and names with the spacer marker.
PageUrls ==
    { Url("", 101, "none"), Url("https://", 101, "none"),
      Url("http://", 102, "none"), Url("data:", 103, "none"),
      Url("DATA:", 103, "none"), Url("", 104, "spacer"),
      Url("https://", 105, "SPACER") }

\* The <img> elements of the pages: with a src, or with a lazy-loading
\* attribute only, or with no source at all.
PageImgs ==
    { Img(u, NoUrl, NoUrl) : u \in PageUrls }
    \cup { Img(NoUrl, Url("", 106, "none"), Url("", 107, "none")),
           Img(NoUrl, NoUrl, Url("", 107, "none")),
           Img(NoUrl, NoUrl, NoUrl) }

\* The URLs of the inline background-image declarations of the pages.
BackgroundUrls ==
    { Url("", 101, "none"), Url("data:", 103, "none"), Url("", 104, "spacer") }

\* n <img> elements with n different absolute sources.
ManyImgs(n) == [i \in 1..n |-> Img(Url("https://", i, "none"), NoUrl, NoUrl)]

\* The sequences of at most n elements of S.
UpTo(S, n) == UNION { [1..k -> S] : k \in 0..n }

VARIABLE gallery    \* the last extract_images_from_html call: the page's
                    \* <img> elements and background URLs, and the list returned

NoGallery ==
    [done |-> FALSE, imgs |-> << >>, backgrounds |-> << >>, images |-> << >>]

\* A caller runs extract_images_from_html on a page.
ExtractImages(imgs, backgrounds, soupFault) ==
    /\ ~gallery.done
    /\ gallery' = [done |-> TRUE, imgs |-> imgs, backgrounds |-> backgrounds,
                   images |-> extract_images_from_html(imgs, backgrounds, soupFault)]

\* ------------------------------------------------- extractor: text

\* if text and len(text.strip()) >= 200
PrecisionMinLength == 200
\* if result and len(result.strip()) >= 100
RecallMinLength == 100
\* if not result_text or len(result_text.strip()) < 50
FallbackBelowLength == 50
\* if not result_text or len(result_text.strip()) < 10
MeaningfulMinLength == 10

\* What a call of trafilatura.extract or of the HTML parser yields: it
\* raises, or returns None, or returns a text (for the precision call: a
\* JSON document with that text, or one that does not parse).
Raised == [kind |-> "raises", text |-> << >>]
NoneReturned == [kind |-> "none", text |-> << >>]
BadJson == [kind |-> "bad json", text |-> << >>]
Returned(text) == [kind |-> "text", text |-> text]

\* `if text:` for a str.
Truthy(candidate) == candidate.kind = "text" /\ candidate.text # << >>

\* text.splitlines(), from position start on.
RECURSIVE SplitLines(_, _)
SplitLines(text, start) ==
    IF \A p \in start..Len(text) : text[p] # "\n"
    THEN << SubSeq(text, start, Len(text)) >>
    ELSE LET p == CHOOSE q \in start..Len(text) :
                      text[q] = "\n" /\ \A r \in start..(q - 1) : text[r] # "\n"
         IN << SubSeq(text, start, p - 1) >> \o SplitLines(text, p + 1)

\* line.split("  "), from position start on.
RECURSIVE SplitPhrases(_, _)
SplitPhrases(line, start) ==
    LET breaks == { p \in start..(Len(line) - 1) :
                        line[p] = " " /\ line[p + 1] = " " }
    IN IF breaks = {} THEN << SubSeq(line, start, Len(line)) >>
       ELSE LET p == CHOOSE q \in breaks : \A r \in breaks : q <= r
            IN << SubSeq(line, start, p - 1) >> \o SplitPhrases(line, p + 2)

\* ' '.join(chunk for chunk in chunks if chunk), from chunk i on.
RECURSIVE JoinNonEmpty(_, _, _)
JoinNonEmpty(chunks, i, joined) ==
    IF i > Len(chunks) THEN joined
    ELSE JoinNonEmpty(chunks, i + 1,
             IF Strip(chunks[i]) = << >> THEN joined
             ELSE IF joined = << >> THEN Strip(chunks[i])
             ELSE joined \o << " " >> \o Strip(chunks[i]))

\* The stripped phrases of the stripped lines, from line i on.
RECURSIVE PhrasesOfLines(_, _)
PhrasesOfLines(lines, i) ==
    IF i > Len(lines) THEN << >>
    ELSE SplitPhrases(Strip(lines[i]), 1) \o PhrasesOfLines(lines, i + 1)

\* clean_text(text)
clean_text(text) ==
    IF text = << >> THEN << >>
    ELSE JoinNonEmpty(PhrasesOfLines(SplitLines(text, 1), 1), 1, << >>)

\* A page text of the letter with n characters between its leading and
\* trailing whitespace, two of them a double space if there is room.
PageText(letter, n) ==
    IF n < 4 THEN << " " >> \o Rep(letter, n) \o << "\n" >>
    ELSE << " ", letter, " ", " " >> \o Rep(letter, n - 3) \o << "\n" >>

\* What the calls yield on the pages extracted: texts around the lengths
\* the extractor tests for.
PrecisionOutcomes ==
    { Raised, NoneReturned, BadJson,
      Returned(PageText("p", PrecisionMinLength - 1)),
      Returned(PageText("p", PrecisionMinLength)) }
RecallOutcomes ==
    { Raised, NoneReturned,
      Returned(PageText("r", RecallMinLength - 1)),
      Returned(PageText("r", RecallMinLength)) }
BasicOutcomes ==
    { Raised, NoneReturned, Returned(<< >>), Returned(PageText("b", 0)),
      Returned(PageText("b", MeaningfulMinLength - 1)),
      Returned(PageText("b", MeaningfulMinLength)),
      Returned(PageText("b", FallbackBelowLength - 1)),
      Returned(PageText("b", FallbackBelowLength)) }
DomOutcomes ==
    { Raised, Returned(<< >>), Returned(PageText("d", 0)),
      Returned(PageText("d", MeaningfulMinLength)),
      Returned(PageText("d", MeaningfulMinLength + 1)),
      Returned(PageText("d", FallbackBelowLength)) }

\* The texts the handler trims and cleans on these pages, and what
\* str.strip() and clean_text make of each of them.
ExtractTexts ==
    LET raw == { c.text : c \in PrecisionOutcomes \cup RecallOutcomes
                                  \cup BasicOutcomes \cup DomOutcomes }
    IN raw \cup { clean_text(t) : t \in raw }
StrippedTexts == [t \in ExtractTexts |-> Strip(t)]
CleanedTexts == [t \in ExtractTexts |-> clean_text(t)]

TooShortInclusive(text, length) == Len(StrippedTexts[text]) <= length

\* len(text.strip()) < length
TooShort(text, length) == Len(StrippedTexts[text]) < length

MeaninglessIfEmpty(result_text) == result_text = << >>

\* if not result_text or len(result_text.strip()) < 10
Meaningless(result_text) ==
    result_text = << >> \/ TooShort(result_text, MeaningfulMinLength)

\* extract_with_fallback(html, url, request_params) on a page for which the
\* three trafilatura.extract calls yield precision, recall and basic:
\* the text and metadata returned, and the calls made.
extract_with_fallback(precision, recall, basic) ==
    IF Truthy(precision) /\ ~TooShort(precision.text, PrecisionMinLength)
    THEN [found |-> TRUE, text |-> precision.text,
          metadata |-> { << "extraction_method", "precision" >> },
          tried |-> << "precision" >>]
    ELSE IF Truthy(recall) /\ ~TooShort(recall.text, RecallMinLength)
    THEN [found |-> TRUE, text |-> recall.text,
          metadata |-> { << "extraction_method", "recall" >> },
          tried |-> << "precision", "recall" >>]
    ELSE IF Truthy(basic)
    THEN [found |-> TRUE, text |-> basic.text,
          metadata |-> { << "extraction_method", "basic" >> },
          tried |-> << "precision", "recall", "basic" >>]
    ELSE [found |-> FALSE, text |-> << >>, metadata |-> {},
          tried |-> << "precision", "recall", "basic" >>]

\* The responses of the /extract endpoint.
Failure(status, detail) == [status |-> status, detail |-> detail, title |-> "", text |-> << >>, images |-> << >>, metadata |-> {}]
ExtractResponse(title, text, images, metadata) == [status |-> 200, detail |-> "", title |-> title, text |-> text, images |-> images, metadata |-> metadata]

\* dict.update: the pairs of `enhanced` replace those of `metadata` with
\* the same key.
Update(metadata, enhanced) ==
    { m \in metadata : \A e \in enhanced : e[1] # m[1] } \cup enhanced

\* The <img> elements and background-image URLs of the pages extracted.
ContentImgs == << Img(Url("", 101, "none"), NoUrl, NoUrl) >>
ContentBackgrounds == << Url("", 101, "none") >>

\* The part of extract_content that follows the download: meta is what
\* trafilatura.extract_metadata found ("none", "untitled", "titled"),
\* tagTitle and ogTitle say whether the page has a non-empty <title> and
\* og:title, dom is the text of the page's main element or of the whole
\* page as the HTML parser returns it.
ExtractDownloaded(meta, tagTitle, ogTitle, precision, recall, basic, dom, extract_images) ==
    LET enhanced == extract_with_fallback(precision, recall, basic)
        metadata_dict == Update(IF meta = "none" THEN {} ELSE { << "sitename", "s" >> }, enhanced.metadata)
        fallback == ~enhanced.found \/ TooShort(enhanced.text, FallbackBelowLength)
        tried == IF fallback THEN Append(enhanced.tried, "dom") ELSE enhanced.tried
        result_text == IF ~fallback THEN enhanced.text
                       ELSE IF dom.kind = "text" THEN CleanedTexts[dom.text]
                       ELSE << >>
        title == IF meta = "titled" THEN "metadata"
                 ELSE IF tagTitle THEN "title tag"
                 ELSE IF ogTitle THEN "og:title" ELSE ""
        images == IF extract_images
                  THEN extract_images_from_html(ContentImgs, ContentBackgrounds, FALSE)
                  ELSE << >>
    IN [tried |-> tried,
        response |->
            IF fallback /\ dom.kind # "text"
            THEN Failure(422, "Failed to extract readable content")
            ELSE IF Meaningless(result_text)
            THEN Failure(422, "No meaningful content extracted")
            ELSE ExtractResponse(title, CleanedTexts[result_text], images, metadata_dict)]

\* The download: trafilatura.fetch_url returns the page, or raises and the
\* httpx request returns it, or both raise, or nothing is retrieved.
Fetches == { "trafilatura", "httpx", "fails", "empty" }

VARIABLE extraction    \* the last /extract request: what the download and
                       \* the library calls yielded, the calls made, the response

NoExtraction ==
    [done |-> FALSE, urlValid |-> TRUE, fetch |-> "trafilatura",
     precision |-> NoneReturned, recall |-> NoneReturned,
     basic |-> NoneReturned, dom |-> Raised,
     tried |-> << >>, response |-> Failure(0, "")]

\* A client posts a request to /extract; the handler runs to its response.
ExtractContent(urlValid, fetch, meta, tagTitle, ogTitle, precision, recall, basic, dom, extract_images) ==
    /\ ~extraction.done
    /\ LET request == [NoExtraction EXCEPT !.done = TRUE, !.urlValid = urlValid,
                                           !.fetch = fetch]
           out == ExtractDownloaded(meta, tagTitle, ogTitle, precision, recall,
                                    basic, dom, extract_images)
       IN extraction' =
              IF ~urlValid
              THEN [request EXCEPT !.response = Failure(400, "Invalid URL format")]
              ELSE IF fetch = "fails"
              THEN [request EXCEPT !.response = Failure(400, "Failed to fetch URL")]
              ELSE IF fetch = "empty"
              THEN [request EXCEPT
                        !.response = Failure(400, "No content retrieved from URL")]
              ELSE [request EXCEPT !.precision = precision, !.recall = recall,
                                   !.basic = basic, !.dom = dom,
                                   !.tried = out.tried, !.response = out.response]

\* ------------------------------------------- _fixed_size_chunk, called once

\* _fixed_size_chunk is called on every text of at most MaxWindowText
\* characters over WindowAlphabet, with chunk_size in 1..MaxWindowSize and
\* overlap in 0..MaxOverlap below chunk_size (as the defaults 512 and 50
\* are).
MaxWindowText == 6
MaxWindowSize == 5
MaxOverlap == 2

WindowAlphabet == { "a", " ", "\n" }
WindowTexts == UNION { [1..n -> WindowAlphabet] : n \in 0..MaxWindowText }

Max(a, b) == IF a >= b THEN a ELSE b
Min(a, b) == IF a <= b THEN a ELSE b

\* chunk.rfind(' '): the last position (from 0) of a blank in the chunk, or
\* -1.
RFindSpace(chunk) ==
    IF \A i \in 1..Len(chunk) : chunk[i] # " " THEN -1
    ELSE (CHOOSE i \in 1..Len(chunk) :
              chunk[i] = " " /\ \A j \in (i + 1)..Len(chunk) : chunk[j] # " ") - 1

\* last_space > chunk_size * 0.7
KeepsEnough(last_space, chunk_size) == 10 * last_space > 7 * chunk_size

\* start = max(start + chunk_size - overlap, end)
NextStart(start, end, chunk_size, overlap) ==
    Max(start + chunk_size - overlap, end)

\* The while loop of _fixed_size_chunk from `start` (counted from 0) on: the
\* windows [start, end) it cuts, each with the chunk it appends.
RECURSIVE FixedWindows(_, _, _, _, _)
FixedWindows(text, chunk_size, overlap, start, windows) ==
    IF start >= Len(text) THEN windows
    ELSE LET whole == SubSeq(text, start + 1, Min(start + chunk_size, Len(text)))
             last_space == RFindSpace(whole)
             snapped == /\ start + chunk_size < Len(text)
                        /\ ~IsSpace(text[start + chunk_size + 1])
                        /\ KeepsEnough(last_space, chunk_size)
             chunk == IF snapped THEN SubSeq(whole, 1, last_space) ELSE whole
             end == IF snapped THEN start + last_space ELSE start + chunk_size
         IN FixedWindows(text, chunk_size, overlap,
                         NextStart(start, end, chunk_size, overlap),
                         Append(windows, [start |-> start, end |-> end,
                                          snapped |-> snapped,
                                          chunk |-> Strip(chunk)]))

\* return [chunk for chunk in chunks if chunk.strip()]
RECURSIVE NonEmptyChunks(_, _)
NonEmptyChunks(windows, i) ==
    IF i > Len(windows) THEN << >>
    ELSE (IF Strip(windows[i].chunk) # << >> THEN << windows[i].chunk >>
                                              ELSE << >>)
         \o NonEmptyChunks(windows, i + 1)

\* _fixed_size_chunk(text, chunk_size, overlap)
_fixed_size_chunk(text, chunk_size, overlap) ==
    NonEmptyChunks(FixedWindows(text, chunk_size, overlap, 0, << >>), 1)

VARIABLE windowing  \* the _fixed_size_chunk call made: its arguments, the
                    \* windows of its loop and the chunks it returned

NoWindowing ==
    [done |-> FALSE, text |-> << >>, chunk_size |-> 1, overlap |-> 0,
     windows |-> << >>, chunks |-> << >>]

FixedSizeChunk(text, chunk_size, overlap) ==
    /\ ~windowing.done
    /\ windowing' =
           [done |-> TRUE, text |-> text, chunk_size |-> chunk_size,
            overlap |-> overlap,
            windows |-> FixedWindows(text, chunk_size, overlap, 0, << >>),
            chunks |-> _fixed_size_chunk(text, chunk_size, overlap)]

\* ----------------------------------------- web_search of the MCP server

\* The cap of web_search on the number of results.
ResultCap == 50

\* web_search calls made in one behaviour.
MaxSearches == 3

SearchQueries == { "q1", "q2" }
Categories == { "general", "news" }

\* The max_results the tool is called with: around the cap and small.
MaxResultsArgs == { 1, 2, ResultCap, ResultCap + 1 }

\* What SearXNG answers: a reply with n hits, a reply without the key
\* `results`, or an error.
Reply(kind, n) == [kind |-> kind, n |-> n]
Replies ==
    { Reply("hits", n) : n \in { 0, 2, ResultCap + 1 } }
        \cup { Reply("none", 0), Reply("raises", 0) }

\* f"{query}:{categories}:{time_range}:{language}"
Identifier(query, categories, time_range, language) ==
    << query, ":", categories, ":", time_range, ":", language >>

\* get_cache_key(prefix, identifier): f"mcp:{prefix}:{md5(identifier)[:12]}".
\* Equal identifiers give equal keys; the digest stands for the identifier.
get_cache_key(prefix, identifier) == << "mcp", prefix, identifier >>

CacheKeys ==
    { get_cache_key("search", Identifier(q, c, "None", "en")) :
          q \in SearchQueries, c \in Categories }

\* SearchResult of the n-th hit of a reply.
SearchResult(n, cached) == [hit |-> n, cached |-> cached]

\* (data.get("results") or [])[: min(max_results, 50)]
Take(hits, max_results) == SubSeq(hits, 1, Min(Min(max_results, ResultCap), Len(hits)))

\* SearchResponse(query, count, results)
SearchResponse(query, count, results) ==
    [query |-> query, count |-> count, results |-> results]

\* The branch of web_search for a cached response: every result of the
\* stored data is marked cached, count and results are those stored.
FromCache(data) ==
    SearchResponse(data.query, data.count,
                   [i \in 1..Len(data.results) |->
                        [data.results[i] EXCEPT !.cached = TRUE]])

\* The branch of web_search for a fresh search with `reply` hits.
Fresh(query, max_results, reply) ==
    LET hits == IF reply.kind = "none" THEN << >>
                ELSE [n \in 1..reply.n |-> SearchResult(n, FALSE)]
        results == Take(hits, max_results)
    IN SearchResponse(query, Len(results), results)

VARIABLES
    cache,      \* the search entries of Redis: cache key -> stored response
    session,    \* mcp:session:stats searches_performed
    web         \* the last web_search call: arguments, outcome, response

searchVars == << cache, session, web >>

NoEntry == [query |-> "", count |-> -1, results |-> << >>]

NoWebSearch ==
    [calls |-> 0, query |-> "", max_results |-> 0, categories |-> "",
     outcome |-> "none", response |-> NoEntry]

\* web_search(query, max_results, categories): the cached response when the
\* key is stored; otherwise the search, whose response is stored and
\* counted, or whose exception is raised.
WebSearch(query, max_results, categories, reply) ==
    /\ web.calls < MaxSearches
    /\ LET cache_key == get_cache_key("search",
                            Identifier(query, categories, "None", "en"))
           call == [calls |-> web.calls + 1, query |-> query,
                    max_results |-> max_results, categories |-> categories,
                    outcome |-> "none", response |-> NoEntry]
       IN IF cache[cache_key] # NoEntry
          THEN /\ reply = Reply("none", 0)
               /\ web' = [call EXCEPT !.outcome = "cached",
                                      !.response = FromCache(cache[cache_key])]
               /\ UNCHANGED << cache, session >>
          ELSE IF reply.kind = "raises"
          THEN /\ web' = [call EXCEPT !.outcome = "raised"]
               /\ UNCHANGED << cache, session >>
          ELSE LET search_response == Fresh(query, max_results, reply)
               IN /\ web' = [call EXCEPT !.outcome = "fresh",
                                         !.response = search_response]
                  /\ cache' = [cache EXCEPT ![cache_key] = search_response]
                  /\ session' = session + 1

\* cache.setex(cache_key, CACHE_TTL, ...): Redis drops the entry when its
\* time to live is over.
Expire(cache_key) ==
    /\ cache[cache_key] # NoEntry
    /\ cache' = [cache EXCEPT ![cache_key] = NoEntry]
    /\ UNCHANGED << session, web >>

\* ------------------------------------------------ RateLimiter.acquire

\* RATE_LIMIT_PER_DOMAIN: acquisitions per second and domain.
RateLimitPerDomain == 2

\* The clock of the event loop counts ticks; the limiter's interval
\* 1.0 / self.rate is Interval ticks.
TicksPerSecond == 4
Interval == TicksPerSecond \div RateLimitPerDomain

\* The clock is followed up to MaxTime, over MaxAcquires acquire calls.
MaxTime == 5
MaxAcquires == 3

\* The tasks batch_fetch runs at once (asyncio.gather over
\* fetch_with_semaphore), each calling fetch_content and so acquire; fewer
\* than the semaphore admits.
Fetchers == { 1, 2, 3 }

\* The URLs fetched, and urlparse(url).netloc.
PageUrl(netloc, path) == [scheme |-> "https", netloc |-> netloc, path |-> path]
FetchUrls == { PageUrl("a.org", "/1"), PageUrl("a.org", "/2"), PageUrl("b.org", "/1") }
netloc(url) == url.netloc
Domains == { netloc(url) : url \in FetchUrls }

Never == -1

VARIABLES
    now,          \* asyncio.get_event_loop().time(), in ticks
    domains,      \* RateLimiter.domains: domain -> time of the last
                  \* acquisition, Never for a domain not in the dict
    acquirer,     \* per task: where it is in acquire
    completions,  \* per domain: the times at which acquire calls returned
    acquires      \* acquire calls started

limiterVars == << now, domains, acquirer, completions, acquires >>

NotAcquiring == [pc |-> "idle", domain |-> "", wake |-> 0]

\* time since the last acquisition is below the interval
TooSoon(elapsed) == elapsed < Interval

\* A task calls acquire(url): it runs to the sleep, or, when the domain is
\* new or its last acquisition lies an interval back, to the end.
Acquire(p, url) ==
    /\ acquirer[p].pc = "idle"
    /\ acquires < MaxAcquires
    /\ acquires' = acquires + 1
    /\ LET domain == netloc(url)
           elapsed == now - domains[domain]
       IN IF domains[domain] # Never /\ TooSoon(elapsed)
          THEN /\ acquirer' = [acquirer EXCEPT ![p] =
                      [pc |-> "sleeping", domain |-> domain,
                       wake |-> now + (Interval - elapsed)]]
               /\ UNCHANGED << domains, completions >>
          ELSE /\ domains' = [domains EXCEPT ![domain] = now]
               /\ completions' = [completions EXCEPT
                                      ![domain] = Append(@, now)]
               /\ UNCHANGED acquirer
    /\ UNCHANGED now

\* asyncio.sleep is over: the task stamps the domain with the time it reads
\* now, and acquire returns.
Wake(p) ==
    /\ acquirer[p].pc = "sleeping"
    /\ now >= acquirer[p].wake
    /\ domains' = [domains EXCEPT ![acquirer[p].domain] = now]
    /\ completions' = [completions EXCEPT
                           ![acquirer[p].domain] = Append(@, now)]
    /\ acquirer' = [acquirer EXCEPT ![p] = NotAcquiring]
    /\ UNCHANGED << now, acquires >>

\* The clock advances.
Tick ==
    /\ now < MaxTime
    /\ now' = now + 1
    /\ UNCHANGED << domains, acquirer, completions, acquires >>

IngestInit ==
    /\ index = {}
    /\ task = [p \in Tasks |-> IdleTask]
    /\ calls = 0
    /\ succeeded = [c \in Contents |-> 0]

\* The calls of the pure functions and of the extractor, which the
\* vectorizer's operations leave alone.
serverVars == << windowing, searchVars, limiterVars >>
callVars == << chunker, gallery, extraction, serverVars >>

vars == << index, task, calls, succeeded, rag, callVars >>

Init ==
    /\ IngestInit
    /\ rag = NoSearch
    /\ chunker = NoChunking
    /\ gallery = NoGallery
    /\ extraction = NoExtraction
    /\ windowing = NoWindowing
    /\ cache = [k \in CacheKeys |-> NoEntry]
    /\ session = 0
    /\ web = NoWebSearch
    /\ now = 0
    /\ domains = [d \in Domains |-> Never]
    /\ acquirer = [p \in Fetchers |-> NotAcquiring]
    /\ completions = [d \in Domains |-> << >>]
    /\ acquires = 0

\* Ingestion by concurrent callers.
Next ==
    \/ \E p \in Tasks, c \in Contents, getFault \in BOOLEAN :
           StartIngest(p, c, getFault) /\ UNCHANGED << rag, callVars >>
    \/ \E p \in Tasks, ok \in BOOLEAN, addFault \in BOOLEAN :
           EmbedReply(p, ok, addFault) /\ UNCHANGED << rag, callVars >>
Spec == Init /\ [][Next]_vars

\* The contents ingested before a search: all but the one-token text, whose
\* single chunk adds no kind of entry to the index (it embeds as the chunks
\* of the other texts outside the queries' directions do).
SearchContents == { c \in Contents : ContentTable[c].text # TextToken }

\* Retrieval: ingestion by one caller builds the index, and a behaviour ends
\* with one rag_search over it (a search changes nothing that ingestion
\* reads, so every pair of an index and a search is covered).
SearchNext ==
    \/ \E c \in SearchContents, getFault \in BOOLEAN :
           ~rag.done /\ StartIngest(1, c, getFault)
                     /\ UNCHANGED << rag, callVars >>
    \/ \E ok \in BOOLEAN, addFault \in BOOLEAN :
           ~rag.done /\ EmbedReply(1, ok, addFault)
                     /\ UNCHANGED << rag, callVars >>
    \/ \E query \in Queries, max_results \in 1..MaxResults,
          similarity_threshold \in Thresholds, answer \in Answers :
           ~rag.done /\ RagSearch(query, max_results, similarity_threshold, answer)
                     /\ UNCHANGED callVars
SearchSpec == Init /\ [][SearchNext]_vars

\* smart_chunk as a function: a behaviour is one call.
ChunkNext ==
    /\ ~chunker.done
    /\ \E text \in ChunkTexts, max_chunk_size \in 1..MaxChunkSize :
           /\ SmartChunk(text, max_chunk_size)
           /\ UNCHANGED << ingestVars, rag, gallery, extraction, serverVars >>
ChunkSpec == Init /\ [][ChunkNext]_vars

\* extract_images_from_html as a function: a behaviour is one call, on a page
\* of up to two special <img> elements around 0, ImageLimit - 1 or
\* ImageLimit plain ones, and up to two background-image URLs.
ImageNext ==
    /\ ~gallery.done
    /\ \E head \in UpTo(PageImgs, 1), tail \in UpTo(PageImgs, 1),
          n \in { 0, ImageLimit - 1, ImageLimit },
          backgrounds \in UpTo(BackgroundUrls, 2), soupFault \in BOOLEAN :
           /\ ExtractImages(head \o ManyImgs(n) \o tail, backgrounds, soupFault)
           /\ UNCHANGED << ingestVars, rag, chunker, extraction, serverVars >>
ImageSpec == Init /\ [][ImageNext]_vars

\* The /extract endpoint: a behaviour is one request.
ExtractNext ==
    /\ ~extraction.done
    /\ \E urlValid \in BOOLEAN, fetch \in Fetches,
          meta \in { "none", "untitled", "titled" },
          tagTitle \in BOOLEAN, ogTitle \in BOOLEAN,
          precision \in PrecisionOutcomes, recall \in RecallOutcomes,
          basic \in BasicOutcomes, dom \in DomOutcomes,
          extract_images \in BOOLEAN :
           /\ ExtractContent(urlValid, fetch, meta, tagTitle, ogTitle, precision,
                             recall, basic, dom, extract_images)
           /\ UNCHANGED << ingestVars, rag, chunker, gallery, serverVars >>
ExtractSpec == Init /\ [][ExtractNext]_vars

\* _fixed_size_chunk as a function: a behaviour is one call.
WindowNext ==
    /\ ~windowing.done
    /\ \E text \in WindowTexts, chunk_size \in 1..MaxWindowSize,
          overlap \in 0..MaxOverlap :
           /\ overlap < chunk_size
           /\ FixedSizeChunk(text, chunk_size, overlap)
           /\ UNCHANGED << ingestVars, rag, chunker, gallery, extraction,
                           searchVars, limiterVars >>
WindowSpec == Init /\ [][WindowNext]_vars

\* The web_search tool: a behaviour is a sequence of calls, one after the
\* other, with cache entries expiring in between.
WebNext ==
    \/ \E query \in SearchQueries, max_results \in MaxResultsArgs,
          categories \in Categories, reply \in Replies :
           /\ WebSearch(query, max_results, categories, reply)
           /\ UNCHANGED << ingestVars, rag, chunker, gallery, extraction,
                           windowing, limiterVars >>
    \/ \E cache_key \in CacheKeys :
           /\ Expire(cache_key)
           /\ UNCHANGED << ingestVars, rag, chunker, gallery, extraction,
                           windowing, limiterVars >>
WebSpec == Init /\ [][WebNext]_vars

\* The rate limiter under the concurrent fetches of batch_fetch.
LimiterNext ==
    \/ \E p \in Fetchers, url \in FetchUrls :
           /\ Acquire(p, url)
           /\ UNCHANGED << ingestVars, rag, chunker, gallery, extraction,
                           windowing, searchVars >>
    \/ \E p \in Fetchers :
           /\ Wake(p)
           /\ UNCHANGED << ingestVars, rag, chunker, gallery, extraction,
                           windowing, searchVars >>
    \/ /\ Tick
       /\ UNCHANGED << ingestVars, rag, chunker, gallery, extraction,
                       windowing, searchVars >>
LimiterSpec == Init /\ [][LimiterNext]_vars


\* ------------------------------------------------------------ properties

Statuses == { "exists", "success", "no_chunks", "embedding_failed", "error" }

\* Task p returns from process_content in this step.
Returns(p) == task'[p] # task[p] /\ task'[p].pc = "done"

\* The positions of the embedding requests of a call that succeeded.
Embedded(t) == { k \in 1..Len(t.outcomes) : t.outcomes[k] }

\* Some but not all embedding requests of a finished call failed.
PartlyEmbedded(t) ==
    /\ t.pc = "done"
    /\ Len(t.chunks) >= 2
    /\ Len(t.outcomes) = Len(t.chunks)
    /\ Embedded(t) # {}
    /\ Embedded(t) # 1..Len(t.chunks)

\* C1: idempotent ingestion.  Once a call for a content has returned
\* `success` with n chunks, a later call for the same (url, title, text), if
\* its lookup of the hash does not raise, returns `exists` with chunks = n at
\* once, without chunking, without an embedding request and without a write
\* to the index.
C1_Idempotent ==
    [][\A p \in Tasks :
          (/\ calls' = calls + 1
           /\ task'[p] # task[p]
           /\ succeeded[task'[p].content] > 0
           /\ ~task'[p].fault)
          => (/\ task'[p].pc = "done"
              /\ task'[p].result =
                     [status |-> "exists",
                      chunks |-> succeeded[task'[p].content]]
              /\ task'[p].chunked = 0
              /\ task'[p].outcomes = << >>
              /\ index' = index)]_vars

\* A caller got `exists` for a content whose earlier call it made itself (no
\* other caller has run) and which returned `success` with the same count.
C1_Witness ==
    \E p \in Tasks :
        /\ \A q \in Tasks \ {p} : task[q].pc = "idle"
        /\ task[p].pc = "done"
        /\ task[p].result.status = "exists"
        /\ task[p].result.chunks >= 2
        /\ succeeded[task[p].content] = task[p].result.chunks

\* C2: when the embedding of some but not all of several chunks fails (and
\* no index operation raises), the call returns `success` with chunks = the
\* number of chunks that were embedded, and those chunks are in the index
\* with their embeddings.
C2_PartialFailureStored ==
    \A p \in Tasks :
        (PartlyEmbedded(task[p]) /\ ~task[p].fault)
        => (/\ task[p].result =
                   [status |-> "success",
                    chunks |-> Cardinality(Embedded(task[p]))]
            /\ \A k \in Embedded(task[p]) :
                   \E e \in index :
                       /\ e.document = task[p].chunks[k]
                       /\ e.embedding =
                              OllamaModel("search_document", task[p].chunks[k]))

\* C3: every stored entry has the id (content_hash, index) where index is the
\* position (from 0) of its document among the chunks of the text with that
\* hash; its metadata carries that index and the number of those chunks.
C3_IdsFollowOriginalPositions ==
    \A e \in index :
        LET hash == e.metadata.content_hash
            chunks == ChunkedTexts[hash]
        IN /\ e.metadata.chunk_id \in 0..(Len(chunks) - 1)
           /\ e.id = ChunkId(hash, e.metadata.chunk_id)
           /\ e.document = chunks[e.metadata.chunk_id + 1]
           /\ e.metadata.total_chunks = Len(chunks)

C3_Witness ==
    \E e \in index :
        /\ e.metadata.chunk_id = 2
        /\ e.id = ChunkId(e.metadata.content_hash, 2)
        /\ e.metadata.total_chunks = 3

\* C4: a call returns `embedding_failed` exactly when it chunked the text
\* into at least one chunk and every embedding request failed; the index
\* is then as it was.
C4_EmbeddingFailedIffAllFail ==
    [][\A p \in Tasks :
          Returns(p) =>
              LET t == task'[p]
              IN /\ (t.result.status = "embedding_failed")
                     <=> (/\ Len(t.chunks) >= 1
                          /\ Len(t.outcomes) = Len(t.chunks)
                          /\ Embedded(t) = {})
                 /\ t.result.status = "embedding_failed" => index' = index]_vars

C4_Witness ==
    \E p \in Tasks :
        /\ task[p].pc = "done"
        /\ task[p].result.status = "embedding_failed"
        /\ Len(task[p].chunks) >= 2
        /\ Embedded(task[p]) = {}

\* C5: every call returns one of the five statuses, whatever the embedding
\* service and the index do, and a call in which an index operation raised
\* returns `error`.
C5_AlwaysAStatus ==
    \A p \in Tasks :
        task[p].pc = "done" =>
            /\ task[p].result.status \in Statuses
            /\ task[p].fault => task[p].result.status = "error"

C5_Witness ==
    \E p \in Tasks :
        /\ task[p].pc = "done"
        /\ task[p].fault
        /\ Embedded(task[p]) # {}
        /\ task[p].result.status = "error"

\* The candidates of the last search whose similarity reaches the threshold.
Kept == { i \in 1..Len(rag.results.documents) :
              Similarity(rag.results, rag.query_embedding, i)
                  >= rag.similarity_threshold }

\* The last search ran its scoring loop to the end.
Scored == rag.done /\ rag.answer \in { "list", "absent" }

\* C6: when the query embedding request or the index query raises,
\* rag_search returns a RAGResult with no chunks, no sources and no scores
\* whose generated_response is the error text.
C6_SearchFailureIsAResult ==
    (rag.done /\ rag.answer \in { "embedding raises", "query raises" })
    => rag.result = [query |-> rag.query, retrieved_chunks |-> << >>,
                     sources |-> << >>,
                     generated_response |-> "Search failed: e",
                     similarity_scores |-> << >>]

C6_Witness ==
    /\ rag.done
    /\ rag.answer = "query raises"
    /\ index # {}
    /\ rag.result.generated_response = "Search failed: e"

\* C7: a search that scored its candidates returns every candidate whose
\* similarity is >= the threshold and no other: each returned score is >=
\* the threshold, and there are as many returned chunks as such candidates,
\* each of them returned with its score.
C7_ExactlyThoseAboveThreshold ==
    Scored =>
        /\ \A j \in 1..Len(rag.result.similarity_scores) :
               rag.result.similarity_scores[j] >= rag.similarity_threshold
        /\ Len(rag.result.retrieved_chunks) = Cardinality(Kept)
        /\ \A i \in Kept :
               \E j \in 1..Len(rag.result.retrieved_chunks) :
                   /\ rag.result.retrieved_chunks[j] = rag.results.documents[i]
                   /\ rag.result.similarity_scores[j] =
                          Similarity(rag.results, rag.query_embedding, i)

C7_Witness ==
    /\ Scored
    /\ Len(rag.results.documents) = 2
    /\ Cardinality(Kept) = 1
    /\ Len(rag.result.retrieved_chunks) = 1
    /\ rag.result.similarity_scores[1] = rag.similarity_threshold

\* C8: the retained candidates are returned in the order of the index: the
\* r-th retained candidate of the reply is at position r of the result, also
\* when a later candidate scores higher than an earlier one.
C8_IndexOrderKept ==
    Scored =>
        \A i \in Kept :
            LET r == Cardinality({ k \in Kept : k <= i })
            IN /\ r <= Len(rag.result.retrieved_chunks)
               /\ rag.result.retrieved_chunks[r] = rag.results.documents[i]
               /\ rag.result.sources[r] = rag.results.metadatas[i]

C8_Witness ==
    /\ Scored
    /\ Len(rag.result.retrieved_chunks) = 2
    /\ rag.result.retrieved_chunks[1] = rag.results.documents[1]
    /\ rag.result.retrieved_chunks[1] # rag.result.retrieved_chunks[2]
    /\ rag.result.similarity_scores[1] < rag.result.similarity_scores[2]

\* C9: in every RAGResult the three lists have one length, and each
\* position of them holds the document, the metadata and the similarity of
\* one candidate of the reply.
C9_ParallelArrays ==
    rag.done =>
        /\ Len(rag.result.sources) = Len(rag.result.retrieved_chunks)
        /\ Len(rag.result.similarity_scores) = Len(rag.result.retrieved_chunks)
        /\ \A j \in 1..Len(rag.result.retrieved_chunks) :
               \E i \in 1..Len(rag.results.documents) :
                   /\ rag.result.retrieved_chunks[j] = rag.results.documents[i]
                   /\ rag.result.sources[j] = rag.results.metadatas[i]
                   /\ rag.result.similarity_scores[j] =
                          Similarity(rag.results, rag.query_embedding, i)

C9_Witness ==
    /\ rag.done
    /\ Len(rag.result.retrieved_chunks) = 2
    /\ Len(rag.result.similarity_scores) = 2
    /\ rag.result.sources[1] # rag.result.sources[2]

\* What the last search returns when run with threshold t on the same query
\* embedding and the same reply of the index.
AtThreshold(t) ==
    RagOutcome(rag.query, t, rag.query_embedding, rag.answer = "query raises",
               rag.results)

\* C10: on the query embedding and index reply of the last search, a higher
\* threshold returns no more chunks than the threshold used, and only chunks
\* (with their sources) that the search returned.
C10_ThresholdMonotone ==
    rag.done =>
        \A t \in Thresholds :
            t >= rag.similarity_threshold =>
                LET hi == AtThreshold(t)
                IN /\ Len(hi.retrieved_chunks) <= Len(rag.result.retrieved_chunks)
                   /\ \A j \in 1..Len(hi.retrieved_chunks) :
                          \E i \in 1..Len(rag.result.retrieved_chunks) :
                              /\ hi.retrieved_chunks[j] =
                                     rag.result.retrieved_chunks[i]
                              /\ hi.sources[j] = rag.result.sources[i]

C10_Witness ==
    /\ Scored
    /\ Len(rag.result.retrieved_chunks) = 2
    /\ \E t \in Thresholds :
           /\ t > rag.similarity_threshold
           /\ Len(AtThreshold(t).retrieved_chunks) = 1

\* The last search ended in the handler of an exception: the embedding
\* request or the index query raised, or the reply held candidates but null
\* in place of their embeddings.
Failed ==
    /\ rag.done
    /\ \/ rag.answer \in { "embedding raises", "query raises" }
       \/ rag.answer = "null" /\ rag.results.documents # << >>

\* C11: a search that retains no chunk returns empty lists and a message
\* that tells why: one message when the index returned no candidate,
\* another when every candidate scored below the threshold, a third when
\* the search failed; the three differ from each other and from the empty
\* generated_response of a search that retained a chunk.
C11_SentinelsTellTheCause ==
    rag.done =>
        LET r == rag.result
            none == "No relevant information found in the knowledge base."
            below == "No sufficiently relevant information found in the knowledge base."
            failed == "Search failed: e"
        IN /\ Cardinality({ none, below, failed, "" }) = 4
           /\ r.retrieved_chunks = << >> =>
                  /\ r.sources = << >>
                  /\ r.similarity_scores = << >>
                  /\ r.generated_response \in { none, below, failed }
           /\ r.generated_response = failed <=> Failed
           /\ r.generated_response = none <=>
                  (~Failed /\ rag.results.documents = << >>)
           /\ r.generated_response = below <=>
                  (Scored /\ rag.results.documents # << >> /\ Kept = {})
           /\ r.generated_response = "" <=> (Scored /\ Kept # {})

C11_Witness ==
    /\ Scored
    /\ Len(rag.results.documents) = 2
    /\ Kept = {}
    /\ rag.result.retrieved_chunks = << >>
    /\ rag.result.generated_response =
           "No sufficiently relevant information found in the knowledge base."

\* A chunk without whitespace: one token.
IsToken(chunk) == \A k \in 1..Len(chunk) : ~IsSpace(chunk[k])

\* C12: every chunk smart_chunk returns has at most max_chunk_size
\* characters, unless it is one token without whitespace that is longer
\* than max_chunk_size.
C12_ChunksWithinSize ==
    chunker.done =>
        \A k \in 1..Len(chunker.chunks) :
            \/ Len(chunker.chunks[k]) <= chunker.max_chunk_size
            \/ IsToken(chunker.chunks[k])

C12_Witness ==
    /\ chunker.done
    /\ chunker.max_chunk_size >= 2
    /\ Len(chunker.chunks) = 2
    /\ Len(chunker.chunks[1]) > chunker.max_chunk_size
    /\ Len(chunker.chunks[2]) = chunker.max_chunk_size

\* C13: smart_chunk returns no chunk that is empty or whitespace only, and
\* it returns no chunk at all exactly when the text is empty or whitespace
\* only.
C13_NoEmptyChunk ==
    chunker.done =>
        /\ \A k \in 1..Len(chunker.chunks) :
               \E n \in 1..Len(chunker.chunks[k]) : ~IsSpace(chunker.chunks[k][n])
        /\ chunker.chunks = << >> <=>
               \A n \in 1..Len(chunker.text) : IsSpace(chunker.text[n])

C13_Witness ==
    /\ chunker.done
    /\ Len(chunker.text) = 2
    /\ \A n \in 1..Len(chunker.text) : IsSpace(chunker.text[n])
    /\ chunker.chunks = << >>

\* C14: for a fixed max_chunk_size, a text with one more character at its
\* end has at least as many chunks as the text (and so, step by step, has
\* every text with more characters at its end).
C14_CountGrowsWithText ==
    chunker.done =>
        \A c \in Alphabet \cup { "\n", "?" } :
            Len(smart_chunk(Append(chunker.text, c), chunker.max_chunk_size))
                >= Len(chunker.chunks)

C14_Witness ==
    /\ chunker.done
    /\ Len(chunker.chunks) = 2
    /\ Len(chunker.chunks[2]) < chunker.max_chunk_size
    /\ Len(smart_chunk(Append(chunker.text, "a"), chunker.max_chunk_size)) = 2
    /\ Len(smart_chunk(Append(chunker.text, " "), chunker.max_chunk_size)) = 2
    /\ Len(smart_chunk(chunker.text \o << " ", "a" >>,
                       chunker.max_chunk_size)) = 3

\* Greedy packing of pieces into buffers: a piece is appended to the running
\* buffer, joined by one space, exactly when the result has at most
\* max_chunk_size characters; otherwise the buffer is flushed as a chunk and
\* a new buffer starts with the piece; the last buffer is flushed at the
\* end.  With splitLong, a piece that is longer than max_chunk_size by
\* itself is not kept whole: its words are packed in the same way from an
\* empty buffer, and the last of their buffers is the new running buffer.
RECURSIVE GreedyPacking(_, _, _, _, _)
GreedyPacking(pieces, i, buffer, max_chunk_size, splitLong) ==
    LET flushed == IF buffer = << >> THEN << >> ELSE << buffer >>
    IN IF i > Len(pieces) THEN flushed
       ELSE LET joined == IF buffer = << >> THEN pieces[i]
                          ELSE buffer \o << " " >> \o pieces[i]
            IN IF Len(joined) <= max_chunk_size
               THEN GreedyPacking(pieces, i + 1, joined, max_chunk_size, splitLong)
               ELSE IF splitLong /\ Len(pieces[i]) > max_chunk_size
               THEN LET w == GreedyPacking(SplitWords(pieces[i], 1), 1, << >>,
                                           max_chunk_size, FALSE)
                    IN flushed \o SubSeq(w, 1, Len(w) - 1)
                       \o GreedyPacking(pieces, i + 1, w[Len(w)],
                                        max_chunk_size, splitLong)
               ELSE flushed \o GreedyPacking(pieces, i + 1, pieces[i],
                                             max_chunk_size, splitLong)

\* The last smart_chunk call was on a text that, trimmed and collapsed, is
\* longer than max_chunk_size.
LongText ==
    /\ chunker.done
    /\ Len(NormalizeWhitespace(chunker.text)) > chunker.max_chunk_size

\* The last call's text has a sentence that is longer than max_chunk_size
\* and has several words.
HasLongSentence ==
    LET sentences == SplitSentences(NormalizeWhitespace(chunker.text), 1)
    IN \E k \in 1..Len(sentences) :
           /\ Len(sentences[k]) > chunker.max_chunk_size
           /\ ~IsToken(sentences[k])

\* C15 as claimed: for a text longer than max_chunk_size the chunks are the
\* greedy packing of its sentences, every sentence kept whole.
C15_SentencesKeptWhole ==
    LongText =>
        chunker.chunks =
            GreedyPacking(SplitSentences(NormalizeWhitespace(chunker.text), 1),
                          1, << >>, chunker.max_chunk_size, FALSE)

\* C15: for a text longer than max_chunk_size the chunks are the greedy
\* packing of its sentences, in which a sentence longer than max_chunk_size
\* is packed word by word; "Hi. Yo." with max_chunk_size 4 gives the chunks
\* "Hi." and "Yo.".
C15_GreedySentencePacking ==
    LongText =>
        /\ chunker.chunks =
               GreedyPacking(SplitSentences(NormalizeWhitespace(chunker.text), 1),
                             1, << >>, chunker.max_chunk_size, TRUE)
        /\ (/\ chunker.text = << "H", "i", ".", " ", "Y", "o", "." >>
            /\ chunker.max_chunk_size = 4)
           => chunker.chunks = << << "H", "i", "." >>, << "Y", "o", "." >> >>

C15_Witness ==
    /\ LongText
    /\ HasLongSentence
    /\ Len(SplitSentences(NormalizeWhitespace(chunker.text), 1)) = 2
    /\ Len(chunker.chunks) = 3
    /\ chunker.chunks # GreedyPacking(
           SplitSentences(NormalizeWhitespace(chunker.text), 1), 1, << >>,
           chunker.max_chunk_size, FALSE)

\* The example of C15 is among the calls.
C15_Example ==
    /\ chunker.done
    /\ chunker.text = << "H", "i", ".", " ", "Y", "o", "." >>
    /\ chunker.max_chunk_size = 4
    /\ chunker.chunks = << << "H", "i", "." >>, << "Y", "o", "." >> >>

\* Task p has finished a call on a text of 1500 characters in which every
\* embedding request succeeded and no index operation raised.
Ingested1500(p) ==
    /\ task[p].pc = "done"
    /\ Len(ContentTable[task[p].content].text) = 1500
    /\ ~task[p].fault
    /\ task[p].outcomes # << >>
    /\ Len(task[p].outcomes) = Len(task[p].chunks)
    /\ Embedded(task[p]) = 1..Len(task[p].chunks)

\* C16 as claimed: ingesting a new text of 1500 characters with
\* max_chunk_size 512, every embedding request succeeding, produces exactly
\* 3 chunks and returns success with chunks = 3.
C16_AlwaysThreeChunks ==
    \A p \in Tasks :
        Ingested1500(p) =>
            /\ Len(task[p].chunks) = 3
            /\ task[p].result = [status |-> "success", chunks |-> 3]

\* C16: ingesting a new text of 1500 characters with max_chunk_size 512,
\* every embedding request succeeding, returns success with the number of
\* chunks the sentence packing produced: 3 for three sentences of 500, 499
\* and 499 characters, 1 for a single token of 1500 characters.
C16_ChunksOf1500Characters ==
    \A p \in Tasks :
        Ingested1500(p) =>
            LET text == ContentTable[task[p].content].text
            IN /\ task[p].result =
                      [status |-> "success", chunks |-> Len(task[p].chunks)]
               /\ text = TextThree => Len(task[p].chunks) = 3
               /\ text = TextToken => Len(task[p].chunks) = 1

C16_Witness ==
    \E p \in Tasks :
        /\ Ingested1500(p)
        /\ ContentTable[task[p].content].text = TextThree
        /\ task[p].result = [status |-> "success", chunks |-> 3]
        /\ Cardinality(index) = 3

\* A URL that starts with `data:`.
IsDataUri(url) == url.scheme = "data:"

\* Every URL the page offers, resolved against the page URL, in the order
\* the extractor visits them: the <img> sources, then the backgrounds.
Offered ==
    LET raw(i) == IF gallery.imgs[i].src # NoUrl THEN gallery.imgs[i].src
                  ELSE IF gallery.imgs[i].data_src # NoUrl
                  THEN gallery.imgs[i].data_src
                  ELSE gallery.imgs[i].data_lazy_src
    IN [i \in 1..Len(gallery.imgs) |-> urljoin(raw(i))]
       \o [i \in 1..Len(gallery.backgrounds) |-> urljoin(gallery.backgrounds[i])]

\* The position at which a URL is first offered (0 if it never is).
FirstSeen(offered, url) ==
    IF \A i \in 1..Len(offered) : offered[i] # url THEN 0
    ELSE CHOOSE i \in 1..Len(offered) :
             offered[i] = url /\ \A j \in 1..(i - 1) : offered[j] # url

\* C19: the list extract_images_from_html returns, for <img> sources and
\* background-image URLs alike, holds no data: URI and no URL with the
\* spacer marker, holds no URL twice, keeps the URLs in the order in which
\* they are first seen (each entry is first offered after the entry before
\* it), and has at most 50 entries.
C19_ImageListClean ==
    gallery.done =>
        LET images == gallery.images
            offered == Offered
            seen == [i \in 1..Len(images) |-> FirstSeen(offered, images[i])]
        IN /\ Len(images) <= ImageLimit
           /\ \A i \in 1..Len(images) :
                  /\ ~IsDataUri(images[i])
                  /\ ~HasSpacer(images[i])
                  /\ seen[i] > 0
                  /\ i > 1 => seen[i - 1] < seen[i]

\* The last request got its page.
Fetched ==
    /\ extraction.done
    /\ extraction.urlValid
    /\ extraction.fetch \in { "trafilatura", "httpx" }

\* The four strategies in their order, and the candidate each produces on
\* the page of the last request.
Strategies == << "precision", "recall", "basic", "dom" >>

CandidateOf(k) ==
    CASE k = 1 -> extraction.precision
      [] k = 2 -> extraction.recall
      [] k = 3 -> extraction.basic
      [] k = 4 -> IF extraction.dom.kind = "text"
                  THEN Returned(CleanedTexts[extraction.dom.text])
                  ELSE extraction.dom

\* The number of characters of a candidate's text, trimmed.
Trimmed(c) == Len(StrippedTexts[c.text])

\* The accept predicates as claimed: at least 200 trimmed characters, at
\* least 100, non-empty (not counting whitespace), at least 10 trimmed
\* characters.
AcceptedAsClaimed(k) ==
    LET c == CandidateOf(k)
    IN /\ c.kind = "text"
       /\ CASE k = 1 -> Trimmed(c) >= 200
            [] k = 2 -> Trimmed(c) >= 100
            [] k = 3 -> Trimmed(c) >= 1
            [] k = 4 -> Trimmed(c) >= 10

\* The accept predicates with a basic candidate accepted from 50 trimmed
\* characters on.
Accepted(k) ==
    LET c == CandidateOf(k)
    IN /\ c.kind = "text"
       /\ CASE k = 1 -> Trimmed(c) >= 200
            [] k = 2 -> Trimmed(c) >= 100
            [] k = 3 -> Trimmed(c) >= 50
            [] k = 4 -> Trimmed(c) >= 10

\* C17 as claimed: the strategies run in the order precision, recall,
\* basic, DOM fallback; the text returned is the (cleaned) candidate of the
\* first strategy that accepts, a basic candidate being accepted when it is
\* not empty; no strategy after that one runs.
C17_BasicAcceptsNonEmpty ==
    Fetched =>
        /\ \E n \in 1..4 : extraction.tried = SubSeq(Strategies, 1, n)
        /\ \A k \in 1..4 :
               (AcceptedAsClaimed(k) /\ \A j \in 1..(k - 1) : ~AcceptedAsClaimed(j)) =>
                   /\ extraction.tried = SubSeq(Strategies, 1, k)
                   /\ extraction.response.status = 200
                   /\ extraction.response.text = CleanedTexts[CandidateOf(k).text]

\* C17: the strategies run in the order precision, recall, basic, DOM
\* fallback; the text returned is the (cleaned) candidate of the first
\* strategy that accepts (precision: at least 200 trimmed characters,
\* recall: at least 100, basic: at least 50, DOM fallback: at least 10), and
\* no strategy after that one runs.
C17_FirstAcceptedWins ==
    Fetched =>
        /\ \E n \in 1..4 : extraction.tried = SubSeq(Strategies, 1, n)
        /\ \A k \in 1..4 :
               (Accepted(k) /\ \A j \in 1..(k - 1) : ~Accepted(j)) =>
                   /\ extraction.tried = SubSeq(Strategies, 1, k)
                   /\ extraction.response.status = 200
                   /\ extraction.response.text = CleanedTexts[CandidateOf(k).text]

C17_Witness ==
    /\ Fetched
    /\ ~Accepted(1) /\ ~Accepted(2)
    /\ Trimmed(CandidateOf(3)) = 49
    /\ Accepted(4)
    /\ extraction.tried = Strategies
    /\ extraction.response.status = 200
    /\ extraction.response.text = CandidateOf(4).text

\* C18 as claimed: the extraction of a fetched page fails with status 422
\* exactly when none of the four strategies accepted its candidate, a basic
\* candidate being accepted when it is not empty; when a strategy accepted,
\* the response carries a non-empty text.
C18_FailsIffNoneAcceptedAsClaimed ==
    Fetched =>
        /\ extraction.response.status = 422 <=> \A k \in 1..4 : ~AcceptedAsClaimed(k)
        /\ (\E k \in 1..4 : AcceptedAsClaimed(k)) =>
               /\ extraction.response.status = 200
               /\ extraction.response.text # << >>

\* C18: the extraction of a fetched page fails with status 422 exactly when
\* none of the four strategies accepted its candidate, a basic candidate
\* being accepted from 50 trimmed characters on; when a strategy accepted,
\* the response carries a non-empty text.
C18_InsufficientIffNoneAccepted ==
    Fetched =>
        /\ extraction.response.status = 422 <=> \A k \in 1..4 : ~Accepted(k)
        /\ (\E k \in 1..4 : Accepted(k)) =>
               /\ extraction.response.status = 200
               /\ extraction.response.text # << >>

C18_Witness ==
    /\ Fetched
    /\ Trimmed(CandidateOf(1)) = 199
    /\ Trimmed(CandidateOf(2)) = 99
    /\ Trimmed(CandidateOf(3)) = 49
    /\ CandidateOf(4).kind = "text"
    /\ Trimmed(CandidateOf(4)) = 9
    /\ extraction.response.status = 422

\* The ids a call passes to collection.add.
InsertIds(t) == ChunkIds(content_hash(ContentTable[t.content].text), t.chunks)

\* C20: the existence check is made once, before the first embedding
\* request, and is not repeated before the insert: a call that has passed
\* it and has an embedding goes on to collection.add with the ids
\* hash_0..hash_{n-1} whatever the index holds by then, so it returns
\* success (or error), never exists; two concurrent calls on the same new
\* text can therefore both pass the check and both insert the same ids.
C20_InsertNotRechecked ==
    [][\A p \in Tasks :
          (task[p].pc = "embedding" /\ Returns(p) /\ Embedded(task'[p]) # {}) =>
              /\ task'[p].result.status \in { "success", "error" }
              /\ task'[p].result.status = "success" =>
                     \A k \in 1..Len(task'[p].chunks) :
                         \E e \in index' : e.id = InsertIds(task'[p])[k]]_vars

\* Both tasks passed the existence check for the same text before either
\* inserted, and both inserted the same ids: both calls returned success,
\* and the index holds each id once.
C20_Witness ==
    \E p, q \in Tasks :
        /\ p # q
        /\ task[p].pc = "done" /\ task[q].pc = "done"
        /\ ContentTable[task[p].content].text = ContentTable[task[q].content].text
        /\ task[p].content # task[q].content
        /\ Len(task[p].chunks) = 2
        /\ task[p].result = [status |-> "success", chunks |-> 2]
        /\ task[q].result = [status |-> "success", chunks |-> 2]
        /\ InsertIds(task[p]) = InsertIds(task[q])
        /\ Cardinality(index) = 2

\* C21: process_content never modifies or deletes a stored entry.  In every
\* step, each entry (id, document, embedding, metadata) of the index is still
\* in the index afterwards, whatever a call returns in that step; and a step
\* in which a call returns `exists`, `no_chunks` or `embedding_failed` leaves
\* the index as it was.
C21_StoredEntriesKept ==
    [][/\ index \subseteq index'
       /\ \A p \in Tasks :
              (Returns(p) /\ task'[p].result.status
                                 \in { "exists", "no_chunks", "embedding_failed" })
                  => index' = index]_vars

\* A call returned success for a text whose ids were already stored by a
\* call for a content of the same text and another url: the stored entries
\* still carry the url of the first content.
C21_Witness ==
    \E p \in Tasks :
        /\ task[p].pc = "done"
        /\ task[p].result.status = "success"
        /\ \A k \in 1..Len(task[p].chunks) :
               \E e \in index :
                   /\ e.id = InsertIds(task[p])[k]
                   /\ e.metadata.url # ContentTable[task[p].content].url

\* The chunk indices the index holds for a hash: the index part of the ids
\* of the entries that carry the hash.
StoredIndices(hash) == { e.id[2] : e \in IndexGet(index, hash) }

\* C22: in every reachable state of the index, whatever calls have run and
\* whichever of their embedding requests failed, the chunk indices stored
\* for each content hash are 0, ..., k-1 for some k, and each entry's
\* metadata carries the index of its id.
C22_ChunkIndicesDense ==
    \A h \in 1..Len(Texts) :
        /\ StoredIndices(h) = 0..(Cardinality(IndexGet(index, h)) - 1)
        /\ \A e \in IndexGet(index, h) :
               e.id = ChunkId(h, e.metadata.chunk_id)

\* A call in which some but not all embedding requests failed has returned,
\* and the index holds the chunks of a text of several chunks.
C22_Witness ==
    /\ \E p \in Tasks : PartlyEmbedded(task[p])
    /\ \E h \in 1..Len(Texts) : Cardinality(StoredIndices(h)) >= 2

\* The score the claim gives candidate i of the last reply: the cosine
\* similarity when the reply holds the stored embeddings, and otherwise
\* max(0, 1 - distance).
ClaimedScore(i) ==
    IF rag.answer = "list"
    THEN CosineSimilarity(rag.query_embedding, rag.results.embeddings[i])
    ELSE DistanceSimilarity(rag.results.distances[i])

\* C23: a search whose index reply holds candidates scores each of them by
\* the recomputed cosine similarity when the reply holds the stored
\* embeddings and by max(0, 1 - distance) when it holds none; a search that
\* scored by distance returns a normal result (not the failure result)
\* with every score >= 0.
C23_DistanceFallbackIsNormal ==
    (rag.done /\ rag.answer \in { "list", "absent", "null" }
              /\ rag.results.documents # << >>) =>
        LET kept == { i \in 1..Len(rag.results.documents) :
                          ClaimedScore(i) >= rag.similarity_threshold }
        IN /\ Len(rag.result.similarity_scores) = Cardinality(kept)
           /\ \A i \in kept :
                  \E j \in 1..Len(rag.result.similarity_scores) :
                      /\ rag.result.retrieved_chunks[j] = rag.results.documents[i]
                      /\ rag.result.similarity_scores[j] = ClaimedScore(i)
           /\ rag.answer # "list" =>
                  /\ rag.result.generated_response # "Search failed: e"
                  /\ \A j \in 1..Len(rag.result.similarity_scores) :
                         rag.result.similarity_scores[j] >= 0

\* The stored entries whose document is a chunk of the text.
StoredOfText(text) == { e \in index : e.metadata.content_hash = content_hash(text) }

\* C24: the dedup decision depends on the text only.  A call (whose lookup
\* does not raise) for a content whose text is already stored returns
\* `exists` at once and leaves the index as it was, whatever url, title and
\* timestamp the content and the stored entries carry; and a call returns
\* `exists` only for a content whose own hash is stored, never because of
\* entries of a text with another hash.
C24_DedupByTextOnly ==
    [][\A p \in Tasks :
          /\ (/\ calls' = calls + 1
              /\ task'[p] # task[p]
              /\ ~task'[p].fault
              /\ StoredOfText(ContentTable[task'[p].content].text) # {})
             => (/\ task'[p].pc = "done"
                 /\ task'[p].result.status = "exists"
                 /\ index' = index)
          /\ (Returns(p) /\ task'[p].result.status = "exists")
             => StoredOfText(ContentTable[task'[p].content].text) # {}]_vars

\* A call returned `exists` for a content whose url, title and timestamp
\* all differ from those of the stored entries of its text, while the index
\* also holds entries of another text.
C24_Witness ==
    \E p \in Tasks :
        LET c == ContentTable[task[p].content]
        IN /\ task[p].pc = "done"
           /\ task[p].result.status = "exists"
           /\ StoredOfText(c.text) # {}
           /\ \A e \in StoredOfText(c.text) :
                  /\ e.metadata.url # c.url
                  /\ e.metadata.title # c.title
                  /\ e.metadata.timestamp # c.timestamp
           /\ index # StoredOfText(c.text)

\* The (document, embedding) pairs a finished call handed to collection.add:
\* documents=chunks[:len(embeddings)], embeddings=embeddings.
HandedToAdd(t) ==
    [k \in 1..Len(t.embeddings) |->
        [document |-> Prefix(t.chunks, t.embeddings)[k],
         embedding |-> t.embeddings[k]]]

\* Every stored entry carries the embedding of its own document.
StoredPairsMatch ==
    \A e \in index : e.embedding = OllamaModel("search_document", e.document)

RECURSIVE JoinWithSpaces(_)
JoinWithSpaces(chunks) ==
    IF chunks = << >> THEN << >>
    ELSE IF Len(chunks) = 1 THEN chunks[1]
    ELSE chunks[1] \o << " " >> \o JoinWithSpaces(Tail(chunks))

\* C28: smart_chunk loses nothing and duplicates nothing.  For every text
\* and every max_chunk_size >= 1, the returned chunks joined in order with
\* single spaces are the input text with its whitespace runs collapsed to
\* one blank and its ends trimmed.
C28_ChunksRejoinToText ==
    chunker.done =>
        JoinWithSpaces(chunker.chunks) = NormalizeWhitespace(chunker.text)

\* A text with a run of two whitespace characters between words, cut into
\* several chunks, one of them holding two words packed together.
C28_Witness ==
    /\ chunker.done
    /\ Len(chunker.chunks) >= 2
    /\ Strip(chunker.text) = chunker.text
    /\ Len(chunker.text) > Len(NormalizeWhitespace(chunker.text))
    /\ \E k \in 1..Len(chunker.chunks) :
           \E i \in 1..Len(chunker.chunks[k]) : chunker.chunks[k][i] = " "

\* The values the response's metadata carries under extraction_method.
MethodTags ==
    { m[2] : m \in { n \in extraction.response.metadata :
                         n[1] = "extraction_method" } }

\* The strategy whose candidate is the text of the response: the last one
\* that ran.
Producer == Strategies[Len(extraction.tried)]

\* The tag names the producer of the text where a strategy of
\* extract_with_fallback produced it.
TaggedWhereNotDom ==
    (Fetched /\ extraction.response.status = 200 /\ Producer # "dom") =>
        MethodTags = { Producer }

\* C29: in every successful response, metadata.extraction_method is present
\* and names the strategy that produced the returned text; when the DOM
\* fallback produced it, the tag is not that of a strategy of the cascade
\* whose candidate was discarded.
C29_MethodNamesProducer ==
    (Fetched /\ extraction.response.status = 200) =>
        /\ MethodTags # {}
        /\ Producer # "dom" => MethodTags = { Producer }
        /\ Producer = "dom" =>
               MethodTags \cap { "precision", "recall", "basic" } = {}

\* No window of the last _fixed_size_chunk call starts before the end of the
\* window before it.
WindowsNeverOverlap ==
    windowing.done =>
        \A i \in 1..(Len(windowing.windows) - 1) :
            windowing.windows[i + 1].start >= windowing.windows[i].end

\* C25: _fixed_size_chunk slides its window with `overlap` retraction: each
\* window after the first starts `overlap` characters before the end of the
\* window before it, so that consecutive windows share `overlap`
\* characters.
C25_WindowsShareOverlap ==
    windowing.done =>
        \A i \in 1..(Len(windowing.windows) - 1) :
            windowing.windows[i + 1].start =
                windowing.windows[i].end - windowing.overlap

\* The last web_search call returned a response.
Answered == web.outcome \in { "fresh", "cached" }

\* Every response counts its results, and a fresh response holds at most
\* min(max_results, 50) of them.
CountedAndFreshCapped ==
    Answered =>
        /\ web.response.count = Len(web.response.results)
        /\ Len(web.response.results) <= ResultCap
        /\ web.outcome = "fresh" =>
               Len(web.response.results) <= Min(web.max_results, ResultCap)

\* C26: in any sequence of web_search calls, each call that returns a
\* response returns at most min(max_results, 50) results and a count equal
\* to the number of results, whether it searched or answered from the cache.
C26_AtMostMaxResults ==
    Answered =>
        /\ Len(web.response.results) <= Min(web.max_results, ResultCap)
        /\ web.response.count = Len(web.response.results)

\* Any two acquire calls for one domain returned at least an interval
\* apart, the clock read at each return.
SpacedAtLeast(gap) ==
    \A d \in Domains :
        \A i, j \in 1..Len(completions[d]) :
            i < j => completions[d][j] - completions[d][i] >= gap

\* C30: under concurrent callers, no two acquire calls for the same domain
\* complete less than 1/rate seconds apart.
C30_AcquiresSpaced == SpacedAtLeast(Interval)

====
